---- MODULE Spec2Model ----
(***************************************************************************)
(* Contact-form mail relay: the Express handler POST /api/contact          *)
(* (src/server/index.ts, and the older src/server/index.js), the           *)
(* browser-side submit helpers that post to it, and the theme scripts.     *)
(*                                                                         *)
(* A JavaScript string is a sequence of characters; a character is a       *)
(* one-token TLA+ string with a code point (CodePoint).  A JavaScript      *)
(* value is a record [t, v] (JsUndefined, JsNull, JsStr, JsNum, JsArr).    *)
(***************************************************************************)
EXTENDS Integers, Sequences, FiniteSets, TLC

(***************************************************************************)
(* Characters                                                              *)
(***************************************************************************)
CR  == "<CR>"
LF  == "<LF>"
NUL == "<NUL>"
TAB == "<TAB>"
SP  == " "
DQ  == "\""
BSL == "\\"

Chars ==
  { CR, LF, NUL, TAB, SP, DQ, BSL, "a", "b", "c", "n", "x", "B", "T", "Z",
    "0", "1", "2", "7", "9",
    "@", ".", "-", ":", ",", "<", ">", "&", "'", "!", "/" }

CodePoint(c) ==
  CASE c = NUL -> 0   [] c = TAB -> 9   [] c = LF  -> 10  [] c = CR  -> 13
    [] c = SP  -> 32  [] c = "!" -> 33  [] c = DQ  -> 34  [] c = "&" -> 38
    [] c = "'" -> 39  [] c = "," -> 44  [] c = "-" -> 45  [] c = "." -> 46
    [] c = "/" -> 47  [] c = "0" -> 48  [] c = "1" -> 49  [] c = "2" -> 50
    [] c = "7" -> 55  [] c = "9" -> 57  [] c = ":" -> 58  [] c = "<" -> 60
    [] c = ">" -> 62  [] c = "@" -> 64  [] c = "B" -> 66  [] c = "T" -> 84
    [] c = "Z" -> 90  [] c = BSL -> 92  [] c = "a" -> 97  [] c = "b" -> 98
    [] c = "c" -> 99  [] c = "n" -> 110 [] c = "x" -> 120

InRange(c, lo, hi) == lo <= CodePoint(c) /\ CodePoint(c) <= hi

\* [a-zA-Z]
IsAlpha(c) == InRange(c, 65, 90) \/ InRange(c, 97, 122)
\* \d
IsDigit(c) == InRange(c, 48, 57)
\* [a-zA-Z0-9]
IsAlnum(c) == IsAlpha(c) \/ IsDigit(c)
\* [a-zA-Z0-9!#$%&'*+/=?^_`{|}~-]
IsAtext(c) ==
  \/ IsAlnum(c)
  \/ CodePoint(c) \in {33, 35, 36, 37, 38, 39, 42, 43, 47, 61, 63, 94, 95, 96,
                       123, 124, 125, 126, 45}
\* [\x01-\x08\x0b\x0c\x0e-\x1f\x21\x23-\x5b\x5d-\x7f]
IsQtext(c) ==
  \/ InRange(c, 1, 8)   \/ CodePoint(c) \in {11, 12} \/ InRange(c, 14, 31)
  \/ CodePoint(c) = 33  \/ InRange(c, 35, 91)        \/ InRange(c, 93, 127)
\* [\x01-\x09\x0b\x0c\x0e-\x7f]
IsQpair(c) ==
  InRange(c, 1, 9) \/ CodePoint(c) \in {11, 12} \/ InRange(c, 14, 127)
\* what String.prototype.trim removes (of the characters modelled)
IsWhiteSpace(c) == c \in {SP, TAB, CR, LF}

(***************************************************************************)
(* Strings                                                                 *)
(***************************************************************************)
RECURSIVE Flatten(_)
Flatten(ss) == IF ss = <<>> THEN <<>> ELSE Head(ss) \o Flatten(Tail(ss))

\* the number of occurrences of c in s
Count(c, s) == Cardinality({ i \in 1..Len(s) : s[i] = c })

Has(c, s) == \E i \in 1..Len(s) : s[i] = c

\* String.prototype.slice(0, n)
Slice0(s, n) == SubSeq(s, 1, IF Len(s) < n THEN Len(s) ELSE n)

\* String.prototype.trim
RECURSIVE TrimStart(_)
TrimStart(s) ==
  IF s # <<>> /\ IsWhiteSpace(Head(s)) THEN TrimStart(Tail(s)) ELSE s

RECURSIVE TrimEnd(_)
TrimEnd(s) ==
  IF s # <<>> /\ IsWhiteSpace(s[Len(s)])
  THEN TrimEnd(SubSeq(s, 1, Len(s) - 1)) ELSE s

Trim(s) == TrimEnd(TrimStart(s))

\* String.prototype.split(sep) for a one-character separator
RECURSIVE SplitOn(_, _)
SplitOn(sep, s) ==
  IF \A i \in 1..Len(s) : s[i] # sep THEN <<s>>
  ELSE LET i == CHOOSE k \in 1..Len(s) :
                  s[k] = sep /\ \A j \in 1..(k - 1) : s[j] # sep
       IN <<SubSeq(s, 1, i - 1)>> \o SplitOn(sep, SubSeq(s, i + 1, Len(s)))

(***************************************************************************)
(* JavaScript values, truthiness and String(v)                             *)
(***************************************************************************)
JsUndefined == [t |-> "undefined", v |-> <<>>]
JsNull      == [t |-> "null", v |-> <<>>]
JsStr(s)    == [t |-> "string", v |-> s]
JsNum(n)    == [t |-> "number", v |-> n]
JsArr(a)    == [t |-> "array", v |-> a]
JsFalse     == [t |-> "boolean", v |-> FALSE]

\* !!v
Truthy(x) ==
  CASE x.t = "undefined" -> FALSE
    [] x.t = "null"      -> FALSE
    [] x.t = "string"    -> x.v # <<>>
    [] x.t = "number"    -> x.v # 0
    [] x.t = "array"     -> TRUE
    [] x.t = "boolean"   -> x.v

Digit(n) == CASE n = 0 -> "0" [] n = 1 -> "1" [] n = 7 -> "7"

\* Array.prototype.join(",") of an array of strings
RECURSIVE JoinComma(_)
JoinComma(a) ==
  IF a = <<>> THEN <<>>
  ELSE IF Len(a) = 1 THEN Head(a)
  ELSE Head(a) \o <<",">> \o JoinComma(Tail(a))

\* String(v)
ToStr(x) ==
  CASE x.t = "undefined" -> <<"u", "n", "d", "e", "f", "i", "n", "e", "d">>
    [] x.t = "null"      -> <<"n", "u", "l", "l">>
    [] x.t = "string"    -> x.v
    [] x.t = "number"    -> <<Digit(x.v)>>
    [] x.t = "array"     -> JoinComma(x.v)
    [] x.t = "boolean"   -> IF x.v THEN <<"t", "r", "u", "e">>
                                   ELSE <<"f", "a", "l", "s", "e">>

\* a || b
OrElse(a, b) == IF Truthy(a) THEN a ELSE b

(***************************************************************************)
(* emailRe (src/server/index.ts:94), matched as the regular expression     *)
(* matches: anchored at both ends, so a match is a way to cut the string   *)
(* into local part, "@", domain and optional port.                         *)
(***************************************************************************)
\* [atext]+(?:\.[atext]+)*
IsDotAtom(s) ==
  /\ s # <<>>
  /\ \A i \in 1..Len(s) : IsAtext(s[i]) \/ s[i] = "."
  /\ s[1] # "." /\ s[Len(s)] # "."
  /\ \A i \in 1..(Len(s) - 1) : ~(s[i] = "." /\ s[i + 1] = ".")

\* (?:[qtext]|\\[qpair])*
RECURSIVE IsQContent(_)
IsQContent(s) ==
  IF s = <<>> THEN TRUE
  ELSE IF IsQtext(Head(s)) THEN IsQContent(Tail(s))
  ELSE IF Head(s) = BSL /\ Len(s) >= 2 /\ IsQpair(s[2])
       THEN IsQContent(SubSeq(s, 3, Len(s)))
  ELSE FALSE

\* "(?:...)*"
IsQuotedLocal(s) ==
  /\ Len(s) >= 2 /\ s[1] = DQ /\ s[Len(s)] = DQ
  /\ IsQContent(SubSeq(s, 2, Len(s) - 1))

\* [a-zA-Z0-9](?:[a-zA-Z0-9-]*[a-zA-Z0-9])?
IsLabel(s) ==
  /\ s # <<>>
  /\ \A i \in 1..Len(s) : IsAlnum(s[i]) \/ s[i] = "-"
  /\ IsAlnum(s[1]) /\ IsAlnum(s[Len(s)])

\* (?:label\.)+[a-zA-Z]{2,}
IsHostName(s) ==
  LET parts == SplitOn(".", s)
      n     == Len(parts)
  IN /\ n >= 2
     /\ \A i \in 1..(n - 1) : IsLabel(parts[i])
     /\ Len(parts[n]) >= 2
     /\ \A i \in 1..Len(parts[n]) : IsAlpha(parts[n][i])

\* (?:\d{1,3}\.){3}\d{1,3}
IsDottedQuad(s) ==
  LET parts == SplitOn(".", s)
  IN /\ Len(parts) = 4
     /\ \A i \in 1..4 :
          /\ Len(parts[i]) \in 1..3
          /\ \A j \in 1..Len(parts[i]) : IsDigit(parts[i][j])

\* (?::\d+)?
IsOptPort(s) ==
  \/ s = <<>>
  \/ /\ Len(s) >= 2 /\ s[1] = ":"
     /\ \A i \in 2..Len(s) : IsDigit(s[i])

EmailReTest(s) ==
  \E i \in 1..Len(s) :
    /\ s[i] = "@"
    /\ IsDotAtom(SubSeq(s, 1, i - 1)) \/ IsQuotedLocal(SubSeq(s, 1, i - 1))
    /\ \E j \in i..Len(s) :
         /\ IsHostName(SubSeq(s, i + 1, j)) \/ IsDottedQuad(SubSeq(s, i + 1, j))
         /\ IsOptPort(SubSeq(s, j + 1, Len(s)))

(***************************************************************************)
(* Sanitizing and escaping helpers of the handler (src/server/index.ts)    *)
(***************************************************************************)
HeaderMax  == 200
EmailMax   == 256
MessageMax == 10000

\* a default parameter (s = ''): only undefined is replaced
DefaultEmpty(x) == IF x.t = "undefined" THEN JsStr(<<>>) ELSE x

\* String.prototype.replace(/c/g, rep) for a one-character pattern
\* (each character is replaced on its own, so the string is cut in halves)
RECURSIVE ReplaceAll(_, _, _)
ReplaceAll(s, c, rep) ==
  IF Len(s) = 0 THEN <<>>
  ELSE IF Len(s) = 1 THEN (IF s[1] = c THEN rep ELSE s)
  ELSE LET h == Len(s) \div 2
       IN ReplaceAll(SubSeq(s, 1, h), c, rep)
            \o ReplaceAll(SubSeq(s, h + 1, Len(s)), c, rep)

\* String.prototype.replace('c', rep): the first occurrence only
RECURSIVE ReplaceFirst(_, _, _)
ReplaceFirst(s, c, rep) ==
  IF s = <<>> THEN <<>>
  ELSE IF Head(s) = c THEN rep \o Tail(s)
  ELSE <<Head(s)>> \o ReplaceFirst(Tail(s), c, rep)

\* an escape that leaves the two quotes as they are
escapeHtml_NoQuotes(x) ==
  LET s0 == ToStr(DefaultEmpty(x))
      s1 == ReplaceAll(s0, "&", <<"&", "a", "m", "p", ";">>)
      s2 == ReplaceAll(s1, "<", <<"&", "l", "t", ";">>)
  IN ReplaceAll(s2, ">", <<"&", "g", "t", ";">>)

\* escapeHtml: five replacements, one after the other, "&" first
escapeHtml(x) ==
  LET s0 == ToStr(DefaultEmpty(x))
      s1 == ReplaceAll(s0, "&", <<"&", "a", "m", "p", ";">>)
      s2 == ReplaceAll(s1, "<", <<"&", "l", "t", ";">>)
      s3 == ReplaceAll(s2, ">", <<"&", "g", "t", ";">>)
      s4 == ReplaceAll(s3, DQ, <<"&", "q", "u", "o", "t", ";">>)
  IN ReplaceAll(s4, "'", <<"&", "#", "3", "9", ";">>)

\* String(s).replace(/\r|\n/g, ' ').trim(), but keeping CR and LF
stripCRLF_NoReplace(x) == Trim(ToStr(DefaultEmpty(x)))

\* stripCRLF: String(s).replace(/\r|\n/g, ' ').trim()
stripCRLF(x) ==
  Trim(ReplaceAll(ReplaceAll(ToStr(DefaultEmpty(x)), CR, <<SP>>), LF, <<SP>>))

\* a clamp that keeps one character too many
clamp_OneMore(x, n) == Slice0(ToStr(DefaultEmpty(x)), n + 1)

\* clamp: String(s).slice(0, n)
clamp(x, n) == Slice0(ToStr(DefaultEmpty(x)), n)

\* sanitizeHeader: clamp(stripCRLF(s), n)
sanitizeHeader(x, n) == clamp(JsStr(stripCRLF(x)), n)

\* sanitizeMessage: String(s).replace(/\0/g, '').trim().slice(0, 10000)
sanitizeMessage(x) ==
  Slice0(Trim(ReplaceAll(ToStr(DefaultEmpty(x)), NUL, <<>>)), MessageMax)

\* .replace(/:\d{2}\.\d+Z$/, ''): the match, if any, is a suffix of the string
DropSecondsSuffix(s) ==
  LET n    == Len(s)
      hits == { i \in 1..n :
                  /\ s[i] = ":" /\ i + 5 <= n
                  /\ IsDigit(s[i + 1]) /\ IsDigit(s[i + 2]) /\ s[i + 3] = "."
                  /\ s[n] = "Z"
                  /\ \A j \in (i + 4)..(n - 1) : IsDigit(s[j]) }
  IN IF hits = {} THEN s
     ELSE SubSeq(s, 1, (CHOOSE i \in hits : \A k \in hits : i <= k) - 1)

\* ts: now.toISOString().replace('T', ' ').replace(/:\d{2}\.\d+Z$/, '')
FormatTs(iso) == DropSecondsSuffix(ReplaceFirst(iso, "T", <<SP>>))

SubjectPrefix == <<"[", "W", "e", "b", "U+554F", "U+5408", "U+305B", "]", SP>>

\* subjectLine (index.ts:129-130)
subjectLine(safe, iso) ==
  LET prettyCompany ==
        IF safe.company # <<>>
        THEN <<SP, "(">> \o escapeHtml(JsStr(safe.company)) \o <<")">>
        ELSE <<>>
  IN SubjectPrefix \o escapeHtml(JsStr(safe.subject)) \o prettyCompany
       \o <<SP, "U+2014", SP>> \o FormatTs(iso)

\* textBody (index.ts:155)
textBody(safe, iso) ==
  <<"U+65E5", "U+4ED8", ":", SP>> \o iso
    \o <<LF, "U+4EF6", "U+540D", ":", SP>> \o safe.subject
    \o <<LF, "U+9001", "U+4FE1", "U+8005", ":", SP>> \o safe.name
    \o <<SP, "<">> \o safe.email \o <<">">>
    \o (IF safe.company # <<>>
        THEN <<LF, "U+4F1A", "U+793E", ":", SP>> \o safe.company ELSE <<>>)
    \o <<LF, LF>> \o safe.message

\* senderInfoHtml (index.ts:121); markup of the template is one token each
senderInfoHtml(safe) ==
  <<"<strong>">> \o escapeHtml(JsStr(safe.name)) \o <<"</strong> &lt;">>
    \o escapeHtml(JsStr(safe.email)) \o <<"&gt;">>
    \o (IF safe.company # <<>>
        THEN <<"<br/><small>U+4F1AU+793E: ">> \o escapeHtml(JsStr(safe.company))
               \o <<"</small>">>
        ELSE <<>>)

\* htmlBody (index.ts:133-153); markup of the template is one token each
htmlBody(safe, iso, ip) ==
  <<"<!doctype html>...<tr><td>U+65E5U+4ED8</td><td>">> \o escapeHtml(JsStr(iso))
    \o <<"</td></tr><tr><td>U+4EF6U+540D</td><td>">> \o escapeHtml(JsStr(safe.subject))
    \o <<"</td></tr><tr><td>U+9001U+4FE1U+8005</td><td>">> \o senderInfoHtml(safe)
    \o <<"</td></tr></table><h3>U+30E1U+30C3U+30BBU+30FCU+30B8</h3><div style=...>">>
    \o escapeHtml(JsStr(safe.message))
    \o <<"</div><hr/><small>U+9001U+4FE1U+5143: ">> \o escapeHtml(ip)
    \o <<"</small></body></html>">>

(***************************************************************************)
(* Requests, configuration and responses                                   *)
(***************************************************************************)
\* longest enumerated subject string (all shorter strings are inputs too)
MaxFieldLen == 2

RECURSIVE StringsUpTo(_, _)
StringsUpTo(alphabet, n) ==
  IF n = 0 THEN {<<>>}
  ELSE LET shorter == StringsUpTo(alphabet, n - 1)
       IN shorter \cup { Append(s, c) : s \in shorter, c \in alphabet }

ApiKey      == <<"k", "1">>
OtherKeys   == {<<>>, <<"K", "1">>, <<"k", "1", SP>>}
GoodEmail   == <<"a", "@", "b", ".", "c", "c">>
TestIso     == << "2", "0", "2", "1", "-", "0", "1", "-", "0", "2", "T",
                  "1", "0", ":", "0", "7", ":", "0", "9", ".", "1", "2", "0",
                  "Z" >>

\* inputs one character longer than the handler keeps (the message also
\* holds a newline and a null byte), and an address that is still an
\* address once cut
LongHeader  == [i \in 1..(HeaderMax + 1) |-> "s"]
LongEmail   == GoodEmail \o [i \in 1..(EmailMax - 5) |-> "c"]
LongMessage == <<"m", LF, NUL, "m">> \o [i \in 1..(MessageMax - 1) |-> "m"]

\* values of the x-api-key header: absent, empty, right, wrong
HeaderInputs == {JsUndefined, JsStr(ApiKey)} \cup { JsStr(k) : k \in OtherKeys }

SubjectInputs ==
  { JsStr(s) : s \in StringsUpTo({"a", SP, CR, LF}, MaxFieldLen) }
    \cup { JsUndefined, JsNull, JsNum(0), JsNum(7), JsArr(<<>>),
           JsArr(<< <<"a", CR, LF>>, <<"b">> >>),
           JsStr(<<"H", "i", CR, LF, "B", "c", "c", ":", SP, "e", "@", "x">>),
           JsStr(<<"<", "b", ">", "&", "'", DQ>>), JsStr(LongHeader) }

NameInputs ==
  { JsUndefined, JsStr(<<>>), JsStr(<<"n">>), JsStr(<<SP>>), JsStr(<<CR, LF>>),
    JsStr(<<"n", LF, "T", "o", ":", "x">>), JsNum(7), JsArr(<<>>),
    JsStr(<<"<", "i", ">", "&">>), JsStr(LongHeader) }

EmailInputs ==
  { JsUndefined, JsStr(<<>>), JsStr(GoodEmail),
    JsStr(<<SP>> \o GoodEmail), JsStr(GoodEmail \o <<CR, LF>>),
    JsStr(<<"a", "@", "b", CR, LF, ".", "c", "c">>),
    JsStr(<<"n", "-", "a", "n", "-", "a">>),
    JsStr(<<"a", "@", "b", ".", "c">>),
    JsStr(<<"a", "@", "b">>),
    JsStr(<<"a", ".", ".", "b", "@", "b", ".", "c", "c">>),
    JsStr(<<"a", "@", "1", ".", "1", ".", "1", ".", "1", ":", "2", "7">>),
    JsStr(<<DQ, "a", "@", BSL, SP, DQ, "@", "b", ".", "c", "c">>),
    JsStr(<<DQ, "a", SP, DQ, "@", "b", ".", "c", "c">>),
    JsStr(GoodEmail \o <<LF, "B", "c", "c", ":", "x", "@", "b", ".", "c", "c">>),
    JsArr(<<GoodEmail>>), JsArr(<<GoodEmail, GoodEmail>>), JsNum(7),
    JsStr(<<"a", "&", "'", "@", "b", ".", "c", "c">>), JsStr(LongEmail) }

MessageInputs ==
  { JsUndefined, JsStr(<<>>), JsStr(<<"h", "i">>), JsStr(<<SP>>),
    JsStr(<<NUL>>), JsStr(<<LF, NUL, SP>>),
    JsStr(<<"a", CR, LF, "b", NUL, LF>>), JsNum(7), JsArr(<<>>),
    JsStr(<<"<", "s", "c", "r", "i", "p", "t", ">", "&", "l", "t", ";", DQ>>),
    JsStr(LongMessage) }

CompanyInputs ==
  { JsUndefined, JsStr(<<>>), JsStr(<<"C", "o">>), JsStr(<<SP>>),
    JsStr(<<"C", CR, LF, "x">>), JsStr(<<"<", "b", ">">>), JsNum(0),
    JsStr(LongHeader) }

\* the values the other fields take while one field ranges over its inputs
BasicSubject == {JsUndefined, JsStr(<<"a">>)}
BasicName    == {JsUndefined, JsStr(<<"n">>)}
BasicEmail   == {JsUndefined, JsStr(GoodEmail)}
BasicMessage == {JsUndefined, JsStr(<<"h", "i">>)}
BasicCompany == {JsUndefined, JsStr(<<"C", "o">>)}

\* request bodies: req.body || {} (an absent body reads as every field
\* undefined)
Bodies ==
  [company : BasicCompany, subject : SubjectInputs, name : BasicName,
   email : BasicEmail, message : BasicMessage]
  \cup [company : BasicCompany, subject : BasicSubject, name : NameInputs,
        email : BasicEmail, message : BasicMessage]
  \cup [company : BasicCompany, subject : BasicSubject, name : BasicName,
        email : EmailInputs, message : BasicMessage]
  \cup [company : BasicCompany, subject : BasicSubject, name : BasicName,
        email : BasicEmail, message : MessageInputs]
  \cup [company : CompanyInputs, subject : BasicSubject, name : BasicName,
        email : BasicEmail, message : BasicMessage]

\* request bodies sent while the configuration ranges over its variants
PlainBodies ==
  [company : BasicCompany, subject : {JsStr(<<"a">>)}, name : {JsStr(<<"n">>)},
   email : {JsStr(GoodEmail)}, message : {JsStr(<<"h", "i">>)}]

\* process.env, read-only after startup: the key and the host vary while
\* the rest is unset (BaseEnvs), then the port, then the two addresses
PortInputs ==
  {JsUndefined, JsStr(<<>>), JsStr(<<"4", "6", "5">>),
   JsStr(<<SP, "4", "6", "5", SP>>), JsStr(<<"5", "8", "7">>),
   JsStr(<<"4", "6", "5", "0">>), JsStr(<<"4", SP, "6", "5">>),
   JsStr(<<TAB, "4", "6", "5", LF>>)}

ToAddress   == <<"t", "o", "@", "x", ".", "y", "y">>
FromAddress == <<"f", "r", "@", "x", ".", "y", "y">>

BaseEnvs ==
  [API_KEY : {JsUndefined, JsStr(<<>>), JsStr(ApiKey)},
   SMTP_HOST : {JsUndefined, JsStr(<<"smtp.example.com">>)},
   SMTP_PORT : {JsUndefined},
   TO_EMAIL : {JsUndefined},
   FROM_EMAIL : {JsUndefined}]

PortEnvs ==
  [API_KEY : {JsStr(ApiKey)},
   SMTP_HOST : {JsUndefined, JsStr(<<"smtp.example.com">>)},
   SMTP_PORT : PortInputs,
   TO_EMAIL : {JsUndefined},
   FROM_EMAIL : {JsUndefined}]

AddressEnvs ==
  [API_KEY : {JsStr(ApiKey)},
   SMTP_HOST : {JsUndefined, JsStr(<<"smtp.example.com">>)},
   SMTP_PORT : {JsUndefined},
   TO_EMAIL : {JsUndefined, JsStr(<<>>), JsStr(ToAddress)},
   FROM_EMAIL : {JsUndefined, JsStr(<<>>), JsStr(FromAddress)}]

Envs == BaseEnvs \cup PortEnvs \cup AddressEnvs

NoEnv   == [API_KEY |-> JsUndefined, SMTP_HOST |-> JsUndefined,
            SMTP_PORT |-> JsUndefined, TO_EMAIL |-> JsUndefined,
            FROM_EMAIL |-> JsUndefined]
NoBody  == [company |-> JsUndefined, subject |-> JsUndefined,
            name |-> JsUndefined, email |-> JsUndefined,
            message |-> JsUndefined]
NoReq   == [key |-> JsUndefined, body |-> NoBody, ip |-> JsUndefined]
NoSafe  == [subject |-> <<>>, name |-> <<>>, email |-> <<>>,
            company |-> <<>>, message |-> <<>>]
NoTransport == [host |-> JsUndefined, secure |-> FALSE, user |-> JsUndefined,
                usingTestAccount |-> FALSE, defaultToEmail |-> JsUndefined]
NoMail  == [from |-> JsUndefined, to |-> JsUndefined, subject |-> <<>>,
            text |-> <<>>, htmlBody |-> <<>>]

\* res.status(s).json(body): the keys of the JSON body and their values
Resp(status, keys, error, previewUrl) ==
  [status |-> status, keys |-> keys, error |-> error, previewUrl |-> previewUrl]

R401            == Resp(401, {"error"}, "Unauthorized", JsUndefined)
R400Missing     == Resp(400, {"error"}, "Missing required fields", JsUndefined)
R400Email       == Resp(400, {"error"}, "Invalid email", JsUndefined)
R500Send        == Resp(500, {"error", "details"}, "Failed to send", JsUndefined)
R500SanitizeOrSend ==
  Resp(500, {"error"}, "Failed to sanitize or send email", JsUndefined)
R200(previewUrl) == Resp(200, {"ok", "previewUrl"}, "", previewUrl)
\* index.js
R500SendJs      == Resp(500, {"error"}, "Failed to send", JsUndefined)
R200Js          == Resp(200, {"ok"}, "", JsUndefined)

TestAccountUser == JsStr(<<"test-user@ethereal.email">>)
FallbackTo      == JsStr(<<"ootkisk@gmail.com">>)
FallbackFrom    == JsStr(<<"no-reply@example.com">>)
\* nodemailer.getTestMessageUrl(info): a URL, or false when info has none
PreviewUrls     == {JsStr(<<"https://ethereal.email/message/1">>), JsFalse}

(***************************************************************************)
(* State                                                                   *)
(***************************************************************************)
VARIABLES
  impl,       \* which server file runs: "ts" (index.ts) or "js" (index.js)
  env,        \* process.env of the server
  req,        \* the request being handled: x-api-key header, body, ip
  pc,         \* where the handler is
  safe,       \* safeSubjectHeader, safeNameHeader, ... safeMessage
  transport,  \* the transporter, usingTestAccount and defaultToEmail
  mail,       \* mailOptions (and htmlBody as handed to the sanitizer)
  res,        \* the responses sent for the request, in order
  calls,      \* history: the external calls attempted, in order
  stages,     \* history: the pipeline stages entered, in order
  okStages,   \* history: the stages that completed successfully
  other       \* the closure of a second request, handled while this one waits

serverVars ==
  <<impl, env, req, pc, safe, transport, mail, res, calls, stages, okStages,
    other>>

VARIABLES
  page,       \* the loaded page: which form it holds, its api-key meta tag
  cpc,        \* where the submit handler (and postContact) is
  fields,     \* the trimmed values read from the form
  busy,       \* the submit button is disabled and aria-busy
  status,     \* what the form message shows
  formReset,  \* form.reset() has been called
  abortTimer, \* postContact's abort timer is pending
  settled,    \* how the promise of postContact settled
  resp,       \* the response fetch resolved with
  statusTimer,\* the status controller's auto-clear timer is pending
  looseTimers,\* pending setTimeout(() => status.setStatus(''), 1800) timers
  btnLabel,   \* the submit button's label
  fetches,    \* history: the fetch calls issued, in order
  postCalls,  \* history: the number of postContact calls
  focused,    \* the field the submit handler focused
  result,     \* what the promise of postContact settled with
  callbacks   \* history: how often postContact invoked each callback of opts

clientVars ==
  <<page, cpc, fields, busy, status, formReset, abortTimer, settled, resp,
    statusTimer, looseTimers, btnLabel, fetches, postCalls, focused, result,
    callbacks>>

VARIABLES
  script,      \* which theme script the page runs: "js" (the bundled script
               \* with the re-applying observer) or "ts" (theme-toggle.ts)
  stored,      \* localStorage['site-theme']
  cachedTheme, \* cachedTheme of the bundled script
  attr,        \* the data-theme attribute of the root element
  records,     \* mutation records queued for the data-theme observer
  rafs,        \* pending requestAnimationFrame callbacks that measure
  timers,      \* pending delayed timers that measure the header
  baselineAt,  \* history: data-theme at each write of window.__headerBaseline
  observerRuns,\* history: the runs of the observer callback since the
               \* last select, attribute or media event
  changes,     \* history: the number of select, attribute and media events
  applies      \* history: the number of applyTheme calls

themeVars ==
  <<script, stored, cachedTheme, attr, records, rafs, timers, baselineAt,
    observerRuns, changes, applies>>

vars == <<serverVars, clientVars, themeVars>>

(***************************************************************************)
(* The handler's conditions                                                *)
(***************************************************************************)
\* providedKey (index.ts:68): (req.get('x-api-key') || '').toString()
providedKey(r) == ToStr(OrElse(r.key, JsStr(<<>>)))

\* expectedKey (index.ts:69): process.env.API_KEY || ''
expectedKey(e) == ToStr(OrElse(e.API_KEY, JsStr(<<>>)))

\* a key check that forgets the case of no configured key
Unauthorized_NoEmptyCheck(e, r) == providedKey(r) # expectedKey(e)

\* index.ts:70: !expectedKey || providedKey !== expectedKey
Unauthorized(e, r) ==
  expectedKey(e) = <<>> \/ providedKey(r) # expectedKey(e)

\* index.js:22-23: !process.env.API_KEY || providedKey !== process.env.API_KEY
UnauthorizedJs(e, r) ==
  ~Truthy(e.API_KEY) \/ OrElse(r.key, JsStr(<<>>)) # e.API_KEY

\* a presence check that forgets the message
MissingRequired_NoMessage(b) ==
  ~Truthy(b.subject) \/ ~Truthy(b.name) \/ ~Truthy(b.email)

\* index.ts:75, index.js:28: !subject || !name || !email || !message
MissingRequired(b) ==
  ~Truthy(b.subject) \/ ~Truthy(b.name) \/ ~Truthy(b.email) \/ ~Truthy(b.message)

\* index.ts:87-91
SanitizedFields(b) ==
  [subject |-> sanitizeHeader(b.subject, HeaderMax),
   name    |-> sanitizeHeader(b.name, HeaderMax),
   email   |-> sanitizeHeader(b.email, EmailMax),
   company |-> IF Truthy(b.company) THEN sanitizeHeader(b.company, HeaderMax)
               ELSE <<>>,
   message |-> sanitizeMessage(b.message)]

\* an email check that lets everything through
EmailRejected_Never(s) == FALSE

\* index.ts:95: !emailRe.test(safeEmailHeader)
EmailRejected(s) == ~EmailReTest(s.email)

\* a secure flag that compares the port as it is configured
SecureFlag_NoTrim(e) == ToStr(e.SMTP_PORT) = <<"4", "6", "5">>

\* index.ts:105: String(process.env.SMTP_PORT).trim() === '465'
SecureFlag(e) == Trim(ToStr(e.SMTP_PORT)) = <<"4", "6", "5">>

\* a recipient that never is the test mailbox
toEmail_NoDefault(e, t) == OrElse(e.TO_EMAIL, FallbackTo)

\* index.ts:124: process.env.TO_EMAIL || defaultToEmail || 'ootkisk@gmail.com'
toEmail(e, t) == OrElse(OrElse(e.TO_EMAIL, t.defaultToEmail), FallbackTo)

\* mail options whose sender skips the resolved recipient
MailOptions_FromSkipsRecipient(e, t, s, iso, ip) ==
  [from     |-> OrElse(e.FROM_EMAIL, FallbackFrom),
   to       |-> toEmail(e, t),
   subject  |-> subjectLine(s, iso),
   text     |-> textBody(s, iso),
   htmlBody |-> htmlBody(s, iso, ip)]

\* mailOptions (index.ts:163-169), with htmlBody as handed to DOMPurify
MailOptions(e, t, s, iso, ip) ==
  [from     |-> OrElse(OrElse(e.FROM_EMAIL, toEmail(e, t)), FallbackFrom),
   to       |-> toEmail(e, t),
   subject  |-> subjectLine(s, iso),
   text     |-> textBody(s, iso),
   htmlBody |-> htmlBody(s, iso, ip)]

\* mailOptions of index.js:43-49 (to is process.env.TO_EMAIL as it is)
MailOptionsJs(e, b) ==
  [from     |-> OrElse(e.FROM_EMAIL, FallbackFrom),
   to       |-> e.TO_EMAIL,
   subject  |-> SubjectPrefix \o ToStr(b.subject),
   text     |-> <<"U+9001", "U+4FE1", "U+8005", ":", SP>> \o ToStr(b.name)
                  \o <<SP, "<">> \o ToStr(b.email) \o <<">", LF, LF>>
                  \o ToStr(b.message),
   htmlBody |-> <<"<p>...<strong>">> \o ToStr(b.name) \o <<"</strong> &lt;">>
                  \o ToStr(b.email) \o <<"&gt;</p><hr/><p>">>
                  \o ReplaceAll(ToStr(b.message), LF, <<"<br/>">>)
                  \o <<"</p>">>]

(***************************************************************************)
(* The handler, step by step                                               *)
(***************************************************************************)
\* what one invocation of the handler holds: its request and its locals
\* (and the history kept of it)
Closure ==
  [req |-> req, pc |-> pc, safe |-> safe, transport |-> transport,
   mail |-> mail, res |-> res, calls |-> calls, stages |-> stages,
   okStages |-> okStages]

IdleClosure ==
  [req |-> NoReq, pc |-> "idle", safe |-> NoSafe, transport |-> NoTransport,
   mail |-> NoMail, res |-> <<>>, calls |-> <<>>, stages |-> <<>>,
   okStages |-> {}]

\* a server process started with its configuration
ServerInit ==
  /\ impl \in {"ts", "js"}
  /\ env \in Envs
  /\ req = NoReq
  /\ pc = "idle"
  /\ safe = NoSafe
  /\ transport = NoTransport
  /\ mail = NoMail
  /\ res = <<>>
  /\ calls = <<>>
  /\ stages = <<>>
  /\ okStages = {}
  /\ other = IdleClosure

\* no server process is observed
ServerAbsent ==
  /\ impl = "none"
  /\ env = NoEnv
  /\ req = NoReq
  /\ pc = "idle"
  /\ safe = NoSafe
  /\ transport = NoTransport
  /\ mail = NoMail
  /\ res = <<>>
  /\ calls = <<>>
  /\ stages = <<>>
  /\ okStages = {}
  /\ other = IdleClosure

\* the requests sent while another is being handled
ConcurrentKeys == {JsUndefined, JsStr(ApiKey)}

ConcurrentBodies ==
  PlainBodies
    \cup [company : {JsUndefined}, subject : {JsStr(<<"<", "b", ">", "&", "'", DQ>>)},
          name : {JsStr(<<"n">>)}, email : {JsStr(GoodEmail)},
          message : {JsStr(<<"h", "i">>)}]
    \cup [company : {JsUndefined}, subject : {JsStr(<<"a">>)},
          name : {JsStr(<<"n">>)}, email : {JsStr(<<"a", "@", "b">>)},
          message : {JsStr(<<"h", "i">>)}]

\* a POST /api/contact arrives (express.json() has parsed the body)
Receive ==
  /\ pc = "idle" /\ impl # "none"
  /\ \E key \in (IF other = IdleClosure THEN HeaderInputs ELSE ConcurrentKeys),
        body \in (IF env \notin BaseEnvs THEN PlainBodies
                  ELSE IF other = IdleClosure THEN Bodies
                  ELSE ConcurrentBodies) :
       req' = [key |-> key, body |-> body, ip |-> JsStr(<<":", ":", "1">>)]
  /\ pc' = "auth"
  /\ UNCHANGED <<impl, env, safe, transport, mail, res, calls, stages, okStages>>
  /\ UNCHANGED <<other, clientVars, themeVars>>

\* index.ts:68-72, index.js:22-25
CheckApiKey ==
  /\ pc = "auth"
  /\ IF (IF impl = "ts" THEN Unauthorized(env, req) ELSE UnauthorizedJs(env, req))
     THEN /\ res' = Append(res, R401)
          /\ stages' = stages \o <<"Validate", "Respond">>
          /\ pc' = "done"
     ELSE /\ res' = res
          /\ stages' = Append(stages, "Validate")
          /\ pc' = "fields"
  /\ UNCHANGED <<impl, env, req, safe, transport, mail, calls, okStages>>
  /\ UNCHANGED <<other, clientVars, themeVars>>

\* index.ts:74-77, index.js:27-30
CheckRequired ==
  /\ pc = "fields"
  /\ IF MissingRequired(req.body)
     THEN /\ res' = Append(res, R400Missing)
          /\ stages' = Append(stages, "Respond")
          /\ pc' = "done"
          /\ okStages' = okStages
     ELSE /\ res' = res
          /\ stages' = stages
          /\ pc' = IF impl = "ts" THEN "sanitize" ELSE "jsCompose"
          /\ okStages' = IF impl = "ts" THEN okStages
                         ELSE okStages \cup {"Validate"}
  /\ UNCHANGED <<impl, env, req, safe, transport, mail, calls>>
  /\ UNCHANGED <<other, clientVars, themeVars>>

\* index.ts:80-91
SanitizeFields ==
  /\ pc = "sanitize"
  /\ safe' = SanitizedFields(req.body)
  /\ pc' = "email"
  /\ UNCHANGED <<impl, env, req, transport, mail, res, calls, stages, okStages>>
  /\ UNCHANGED <<other, clientVars, themeVars>>

\* an email check that answers 400 and, the return forgotten, carries on
CheckEmail_NoReturn ==
  /\ pc = "email"
  /\ res' = IF EmailRejected(safe) THEN Append(res, R400Email) ELSE res
  /\ stages' = IF EmailRejected(safe) THEN Append(stages, "Respond") ELSE stages
  /\ pc' = "transport"
  /\ okStages' = okStages \cup {"Validate"}
  /\ UNCHANGED <<impl, env, req, safe, transport, mail, calls>>
  /\ UNCHANGED <<other, clientVars, themeVars>>

\* an email check placed after the creation of the transporter
CheckEmail_AfterTransport ==
  /\ pc = "email"
  /\ calls' = Append(calls, "createTransport")
  /\ IF EmailRejected(safe)
     THEN /\ res' = Append(res, R400Email)
          /\ stages' = Append(stages, "Respond")
          /\ pc' = "done"
          /\ okStages' = okStages
     ELSE /\ res' = res
          /\ stages' = stages
          /\ pc' = "transport"
          /\ okStages' = okStages \cup {"Validate"}
  /\ UNCHANGED <<impl, env, req, safe, transport, mail>>
  /\ UNCHANGED <<other, clientVars, themeVars>>

\* index.ts:94-95
CheckEmail ==
  /\ pc = "email"
  /\ IF EmailRejected(safe)
     THEN /\ res' = Append(res, R400Email)
          /\ stages' = Append(stages, "Respond")
          /\ pc' = "done"
          /\ okStages' = okStages
     ELSE /\ res' = res
          /\ stages' = stages
          /\ pc' = "transport"
          /\ okStages' = okStages \cup {"Validate"}
  /\ UNCHANGED <<impl, env, req, safe, transport, mail, calls>>
  /\ UNCHANGED <<other, clientVars, themeVars>>

\* a transport selection that provisions a test account in every mode
SelectTransport_AlwaysTestAccount ==
  /\ pc = "transport"
  /\ transport' = transport
  /\ calls' = Append(calls, "createTestAccount")
  /\ pc' = "awaitAccount"
  /\ UNCHANGED <<impl, env, req, safe, mail, res, stages, okStages>>
  /\ UNCHANGED <<other, clientVars, themeVars>>

\* index.ts:97-109: a configured host gets its transporter at once; without
\* one the handler awaits nodemailer.createTestAccount()
SelectTransport ==
  /\ pc = "transport"
  /\ IF Truthy(env.SMTP_HOST)
     THEN /\ transport' = [host |-> env.SMTP_HOST, secure |-> SecureFlag(env),
                           user |-> JsUndefined, usingTestAccount |-> FALSE,
                           defaultToEmail |-> JsUndefined]
          /\ calls' = Append(calls, "createTransport")
          /\ pc' = "compose"
     ELSE /\ transport' = transport
          /\ calls' = Append(calls, "createTestAccount")
          /\ pc' = "awaitAccount"
  /\ UNCHANGED <<impl, env, req, safe, mail, res, stages, okStages>>
  /\ UNCHANGED <<other, clientVars, themeVars>>

\* index.ts:109-118: createTestAccount() resolved
TestAccountResolved ==
  /\ pc = "awaitAccount"
  /\ transport' = [host |-> JsStr(<<"smtp.ethereal.email">>), secure |-> FALSE,
                   user |-> TestAccountUser, usingTestAccount |-> TRUE,
                   defaultToEmail |-> OrElse(env.TO_EMAIL, TestAccountUser)]
  /\ calls' = Append(calls, "createTransport")
  /\ pc' = "compose"
  /\ UNCHANGED <<impl, env, req, safe, mail, res, stages, okStages>>
  /\ UNCHANGED <<other, clientVars, themeVars>>

\* index.ts:109, 180-183: createTestAccount() rejected, the outer catch
TestAccountRejected ==
  /\ pc = "awaitAccount"
  /\ res' = Append(res, R500Send)
  /\ stages' = Append(stages, "Respond")
  /\ pc' = "done"
  /\ UNCHANGED <<impl, env, req, safe, transport, mail, calls, okStages>>
  /\ UNCHANGED <<other, clientVars, themeVars>>

\* index.ts:121-155: senderInfoHtml, toEmail, subjectLine, htmlBody, textBody
Compose ==
  /\ pc = "compose"
  /\ \E iso \in {TestIso} :
       mail' = MailOptions(env, transport, safe, iso, req.ip)
  /\ stages' = Append(stages, "Compose")
  /\ okStages' = okStages \cup {"Compose"}
  /\ pc' = "purify"
  /\ UNCHANGED <<impl, env, req, safe, transport, res, calls>>
  /\ UNCHANGED <<other, clientVars, themeVars>>

\* index.ts:158-161: JSDOM and DOMPurify.sanitize(htmlBody) returned
PurifyReturned ==
  /\ pc = "purify"
  /\ stages' = Append(stages, "Sanitize")
  /\ okStages' = okStages \cup {"Sanitize"}
  /\ pc' = "send"
  /\ UNCHANGED <<impl, env, req, safe, transport, mail, res, calls>>
  /\ UNCHANGED <<other, clientVars, themeVars>>

\* a sanitizer failure that is swallowed: the handler goes on to send
PurifyThrew_Ignored ==
  /\ pc = "purify"
  /\ stages' = Append(stages, "Sanitize")
  /\ pc' = "send"
  /\ UNCHANGED <<impl, env, req, safe, transport, mail, res, calls, okStages>>
  /\ UNCHANGED <<other, clientVars, themeVars>>

\* index.ts:158-161, 176-179: JSDOM or DOMPurify threw, the inner catch
PurifyThrew ==
  /\ pc = "purify"
  /\ stages' = stages \o <<"Sanitize", "Respond">>
  /\ res' = Append(res, R500SanitizeOrSend)
  /\ pc' = "done"
  /\ UNCHANGED <<impl, env, req, safe, transport, mail, calls, okStages>>
  /\ UNCHANGED <<other, clientVars, themeVars>>

\* a send that is not awaited: the success response goes out at once
CallSendMail_NoAwait ==
  /\ pc = "send"
  /\ calls' = Append(calls, "sendMail")
  /\ stages' = stages \o <<"Send", "Respond">>
  /\ res' = Append(res, R200(JsNull))
  /\ pc' = "done"
  /\ UNCHANGED <<impl, env, req, safe, transport, mail, okStages>>
  /\ UNCHANGED <<other, clientVars, themeVars>>

\* index.ts:171: transporter.sendMail(mailOptions) is called and awaited
CallSendMail ==
  /\ pc = "send"
  /\ calls' = Append(calls, "sendMail")
  /\ stages' = Append(stages, "Send")
  /\ pc' = "awaitSend"
  /\ UNCHANGED <<impl, env, req, safe, transport, mail, res, okStages>>
  /\ UNCHANGED <<other, clientVars, themeVars>>

\* a success response that asks for a preview URL in either mode
SendResolved_AlwaysPreview ==
  /\ pc = "awaitSend" /\ impl = "ts"
  /\ \E url \in PreviewUrls : res' = Append(res, R200(url))
  /\ stages' = Append(stages, "Respond")
  /\ okStages' = okStages \cup {"Send"}
  /\ pc' = "done"
  /\ UNCHANGED <<impl, env, req, safe, transport, mail, calls>>
  /\ UNCHANGED <<other, clientVars, themeVars>>

\* index.ts:171-175: sendMail resolved
SendResolved ==
  /\ pc = "awaitSend" /\ impl = "ts"
  /\ \E url \in (IF transport.usingTestAccount THEN PreviewUrls ELSE {JsNull}) :
       res' = Append(res, R200(url))
  /\ stages' = Append(stages, "Respond")
  /\ okStages' = okStages \cup {"Send"}
  /\ pc' = "done"
  /\ UNCHANGED <<impl, env, req, safe, transport, mail, calls>>
  /\ UNCHANGED <<other, clientVars, themeVars>>

\* a failed send that is tried once more
SendRejected_Retry ==
  /\ pc = "awaitSend" /\ impl = "ts"
  /\ IF Len(calls) < 4
     THEN /\ calls' = Append(calls, "sendMail")
          /\ UNCHANGED <<res, stages, pc>>
     ELSE /\ res' = Append(res, R500SanitizeOrSend)
          /\ stages' = Append(stages, "Respond")
          /\ pc' = "done"
          /\ calls' = calls
  /\ UNCHANGED <<impl, env, req, safe, transport, mail, okStages>>
  /\ UNCHANGED <<other, clientVars, themeVars>>

\* index.ts:171, 176-179: sendMail rejected, the inner catch
SendRejected ==
  /\ pc = "awaitSend" /\ impl = "ts"
  /\ res' = Append(res, R500SanitizeOrSend)
  /\ stages' = Append(stages, "Respond")
  /\ pc' = "done"
  /\ UNCHANGED <<impl, env, req, safe, transport, mail, calls, okStages>>
  /\ UNCHANGED <<other, clientVars, themeVars>>

(***************************************************************************)
(* index.js after the two checks                                           *)
(***************************************************************************)
\* index.js:33-51: createTransport, mailOptions (message.replace throws a
\* TypeError unless message is a string), then sendMail is called and awaited
JsComposeAndSend ==
  /\ pc = "jsCompose"
  /\ IF req.body.message.t = "string"
     THEN /\ mail' = MailOptionsJs(env, req.body)
          /\ calls' = calls \o <<"createTransport", "sendMail">>
          /\ stages' = stages \o <<"Compose", "Send">>
          /\ okStages' = okStages \cup {"Compose"}
          /\ res' = res
          /\ pc' = "awaitSend"
     ELSE /\ mail' = mail
          /\ calls' = Append(calls, "createTransport")
          /\ stages' = stages \o <<"Compose", "Respond">>
          /\ okStages' = okStages
          /\ res' = Append(res, R500SendJs)
          /\ pc' = "done"
  /\ UNCHANGED <<impl, env, req, safe, transport>>
  /\ UNCHANGED <<other, clientVars, themeVars>>

\* index.js:51-53: sendMail resolved
JsSendResolved ==
  /\ pc = "awaitSend" /\ impl = "js"
  /\ res' = Append(res, R200Js)
  /\ stages' = Append(stages, "Respond")
  /\ okStages' = okStages \cup {"Send"}
  /\ pc' = "done"
  /\ UNCHANGED <<impl, env, req, safe, transport, mail, calls>>
  /\ UNCHANGED <<other, clientVars, themeVars>>

\* index.js:51, 54-57: sendMail rejected
JsSendRejected ==
  /\ pc = "awaitSend" /\ impl = "js"
  /\ res' = Append(res, R500SendJs)
  /\ stages' = Append(stages, "Respond")
  /\ pc' = "done"
  /\ UNCHANGED <<impl, env, req, safe, transport, mail, calls, okStages>>
  /\ UNCHANGED <<other, clientVars, themeVars>>

\* a switch that leaves the sanitized fields where they are, as if they
\* were kept in variables of the module and not of the handler
Switch_SharedFields ==
  /\ impl = "ts" /\ env \in BaseEnvs
  /\ pc \in {"awaitAccount", "awaitSend", "done"}
  /\ req.key \in ConcurrentKeys /\ req.body \in ConcurrentBodies
  /\ other' = [Closure EXCEPT !.safe = other.safe]
  /\ req' = other.req /\ pc' = other.pc
  /\ safe' = safe
  /\ transport' = other.transport /\ mail' = other.mail /\ res' = other.res
  /\ calls' = other.calls /\ stages' = other.stages
  /\ okStages' = other.okStages
  /\ UNCHANGED <<impl, env>>
  /\ UNCHANGED <<clientVars, themeVars>>

\* index.ts:66, 109, 171: the handler is an async function whose variables
\* are all its own (const/let inside the callback); while one invocation
\* awaits createTestAccount or sendMail, or after it has ended, the event
\* loop runs the other invocation
Switch ==
  /\ impl = "ts" /\ env \in BaseEnvs
  /\ pc \in {"awaitAccount", "awaitSend", "done"}
  /\ req.key \in ConcurrentKeys /\ req.body \in ConcurrentBodies
  /\ other' = Closure
  /\ req' = other.req /\ pc' = other.pc /\ safe' = other.safe
  /\ transport' = other.transport /\ mail' = other.mail /\ res' = other.res
  /\ calls' = other.calls /\ stages' = other.stages
  /\ okStages' = other.okStages
  /\ UNCHANGED <<impl, env>>
  /\ UNCHANGED <<clientVars, themeVars>>

ServerNext ==
  \/ Switch
  \/ Receive
  \/ CheckApiKey
  \/ CheckRequired
  \/ SanitizeFields
  \/ CheckEmail
  \/ SelectTransport
  \/ TestAccountResolved
  \/ TestAccountRejected
  \/ Compose
  \/ PurifyReturned
  \/ PurifyThrew
  \/ CallSendMail
  \/ SendResolved
  \/ SendRejected
  \/ JsComposeAndSend
  \/ JsSendResolved
  \/ JsSendRejected


(***************************************************************************)
(* The browser side: the contact form (contact.ts), the careers form       *)
(* (form-submit.ts) and postContact (form-utils.ts)                        *)
(***************************************************************************)
NoPage   == [form |-> "none", apiKey |-> <<>>, lib |-> "none"]
NoFields == [company |-> <<>>, subject |-> <<>>, name |-> <<>>,
             email |-> <<>>, message |-> <<>>]
NoResp   == [status |-> 0, body |-> "none"]

\* the page: which form it holds and the content of meta[name="api-key"]
\* (empty when the tag is absent)
\* and which of the two copies of postContact the page was built with: the
\* one that clears its abort timer in catch and finally ("cleared") or the
\* one that clears it only once fetch has resolved ("kept")
Pages ==
  [form : {"contact", "careers"}, apiKey : {<<>>, ApiKey},
   lib : {"cleared", "kept"}]

\* what the user typed
FormValues ==
  [company : {<<>>, <<"C", "o">>},
   subject : {<<>>, <<SP>>, <<"a">>},
   name    : {<<>>, <<"n">>},
   email   : {<<>>, GoodEmail, <<SP>> \o GoodEmail \o <<SP>>, <<"n", "-", "a">>},
   message : {<<>>, <<"h", "i">>, <<LF>>}]

\* what fetch resolves with: the status and the kind of body text
FetchResponses ==
  [status : {200, 400, 401, 500, 502},
   body : {"object", "objectPreview", "error", "message", "both", "empty",
           "notJson", "number", "null"}]

\* (el?.value.trim() || '') for each field
ReadForm(raw) ==
  [company |-> Trim(raw.company), subject |-> Trim(raw.subject),
   name |-> Trim(raw.name), email |-> Trim(raw.email),
   message |-> Trim(raw.message)]

\* validateContactFields looking at the address before the name
validateContactFields_EmailFirst(v) ==
  LET miss(f) == IF v[f] = <<>> THEN <<f>> ELSE <<>>
      missing == miss("subject") \o miss("name") \o miss("email")
                   \o miss("message")
      emailInvalid == v.email # <<>> /\ ~EmailReTest(v.email)
      firstInvalid ==
        IF v.subject = <<>> THEN "subject"
        ELSE IF v.email = <<>> \/ emailInvalid THEN "email"
        ELSE IF v.name = <<>> THEN "name"
        ELSE IF v.message = <<>> THEN "message"
        ELSE "subject"
  IN [missing |-> missing, emailInvalid |-> emailInvalid,
      firstInvalid |-> firstInvalid]

\* validateContactFields (form-utils.ts)
validateContactFields(v) ==
  LET miss(f) == IF v[f] = <<>> THEN <<f>> ELSE <<>>
      missing == miss("subject") \o miss("name") \o miss("email")
                   \o miss("message")
      emailInvalid == v.email # <<>> /\ ~EmailReTest(v.email)
      firstInvalid ==
        IF v.subject = <<>> THEN "subject"
        ELSE IF v.name = <<>> THEN "name"
        ELSE IF v.email = <<>> THEN "email"
        ELSE IF v.message = <<>> THEN "message"
        ELSE IF emailInvalid THEN "email" ELSE "subject"
  IN [missing |-> missing, emailInvalid |-> emailInvalid,
      firstInvalid |-> firstInvalid]

\* a payload that always carries the company
Payload_AlwaysCompany(v) ==
  [company |-> JsStr(v.company),
   subject |-> JsStr(v.subject), name |-> JsStr(v.name),
   email |-> JsStr(v.email), message |-> JsStr(v.message)]

\* payload: { subject, name, email, message }, company only when non-empty
Payload(v) ==
  [company |-> IF v.company # <<>> THEN JsStr(v.company) ELSE JsUndefined,
   subject |-> JsStr(v.subject), name |-> JsStr(v.name),
   email |-> JsStr(v.email), message |-> JsStr(v.message)]

\* the fetch call of postContact: url, x-api-key header (if any), JSON body
FetchCall(key, payload) ==
  [url |-> "/api/contact",
   key |-> IF key # <<>> THEN JsStr(key) ELSE JsUndefined,
   body |-> payload]

\* the ways the promise of postContact rejects: fetch failed, the abort
\* timer fired, resp.text() failed, the response was not ok
Rejections == {"rejectedNetwork", "rejectedAbort", "rejectedBody", "rejectedHttp"}

\* resp.ok
RespOk(r) == r.status >= 200 /\ r.status <= 299

\* JavaScript objects: v maps the own keys (strings) to values
JsTrue   == [t |-> "boolean", v |-> TRUE]
JsObj(f) == [t |-> "object", v |-> f]
NoKeys   == [k \in {} |-> JsUndefined]

\* x?.[k]
Prop(x, k) ==
  IF x.t = "object" /\ k \in DOMAIN x.v THEN x.v[k] ELSE JsUndefined

K_ok         == <<"o", "k">>
K_error      == <<"e", "r", "r", "o", "r">>
K_message    == <<"m", "e", "s", "s", "a", "g", "e">>
K_previewUrl == <<"p", "r", "e", "v", "i", "e", "w", "U", "r", "l">>
K_raw        == <<"_", "r", "a", "w">>

\* JSON.parse for the texts a response body holds here: the literals, a
\* one-digit number, a string without escapes, and an object of such
\* members (no white space, no comma or colon inside a string)
IsJsonString(t) ==
  /\ Len(t) >= 2 /\ t[1] = DQ /\ t[Len(t)] = DQ
  /\ \A i \in 2..(Len(t) - 1) : t[i] \notin {DQ, BSL, CR, LF, TAB, NUL}

Unquote(t) == SubSeq(t, 2, Len(t) - 1)

JsonScalar(t) ==
  CASE t = <<"n", "u", "l", "l">>      -> [ok |-> TRUE, value |-> JsNull]
    [] t = <<"t", "r", "u", "e">>      -> [ok |-> TRUE, value |-> JsTrue]
    [] t = <<"f", "a", "l", "s", "e">> -> [ok |-> TRUE, value |-> JsFalse]
    [] Len(t) = 1 /\ IsDigit(t[1])     ->
         [ok |-> TRUE, value |-> JsNum(CodePoint(t[1]) - 48)]
    [] IsJsonString(t)                 -> [ok |-> TRUE, value |-> JsStr(Unquote(t))]
    [] OTHER                           -> [ok |-> FALSE, value |-> JsUndefined]

JsonParse(t) ==
  IF Len(t) >= 2 /\ t[1] = "{" /\ t[Len(t)] = "}"
  THEN LET inner   == Unquote(t)
           members == IF inner = <<>> THEN <<>> ELSE SplitOn(",", inner)
           parts(i) == SplitOn(":", members[i])
           wellFormed(i) ==
             /\ Len(parts(i)) = 2
             /\ IsJsonString(parts(i)[1])
             /\ JsonScalar(parts(i)[2]).ok
           key(i) == Unquote(parts(i)[1])
           \* a key given twice takes its last value
           last(k) == CHOOSE i \in 1..Len(members) :
                        key(i) = k /\ \A j \in (i + 1)..Len(members) : key(j) # k
       IN IF \A i \in 1..Len(members) : wellFormed(i)
          THEN [ok |-> TRUE,
                value |-> JsObj([k \in { key(i) : i \in 1..Len(members) } |->
                                   JsonScalar(parts(last(k))[2]).value])]
          ELSE [ok |-> FALSE, value |-> JsUndefined]
  ELSE JsonScalar(t)

\* the text of each kind of response body
Quoted(s) == <<DQ>> \o s \o <<DQ>>
PreviewUrl == <<"/", "p">>
BodyText(kind) ==
  CASE kind = "object" ->
         <<"{">> \o Quoted(K_ok) \o <<":", "t", "r", "u", "e", "}">>
    [] kind = "objectPreview" ->
         <<"{">> \o Quoted(K_ok) \o <<":", "t", "r", "u", "e", ",">>
           \o Quoted(K_previewUrl) \o <<":">> \o Quoted(PreviewUrl) \o <<"}">>
    [] kind = "error" ->
         <<"{">> \o Quoted(K_error) \o <<":">> \o Quoted(<<"b", "a", "d">>)
           \o <<"}">>
    [] kind = "message" ->
         <<"{">> \o Quoted(K_message) \o <<":">> \o Quoted(<<"m">>) \o <<"}">>
    [] kind = "both" ->
         <<"{">> \o Quoted(K_error) \o <<":">> \o Quoted(<<"b", "a", "d">>)
           \o <<",">> \o Quoted(K_message) \o <<":">> \o Quoted(<<"m">>)
           \o <<"}">>
    [] kind = "empty"   -> <<>>
    [] kind = "notJson" -> <<"<", "h", "t", "m", "l", ">">>
    [] kind = "number"  -> <<"7">>
    [] kind = "null"    -> <<"n", "u", "l", "l">>

\* the parsed body without the test for an empty text
ParsedBody_NoEmptyCase(text) ==
  IF JsonParse(text).ok THEN JsonParse(text).value
  ELSE JsObj([k \in {K_raw} |-> JsStr(text)])

\* postContact: json = text ? JSON.parse(text) : {}, { _raw: text } when
\* JSON.parse throws
ParsedBody(text) ==
  IF text = <<>> THEN JsObj(NoKeys)
  ELSE IF JsonParse(text).ok THEN JsonParse(text).value
  ELSE JsObj([k \in {K_raw} |-> JsStr(text)])

\* the decimal digits of a three-digit status
StatusDigits(n) ==
  LET d(k) == <<"0", "1", "2", "3", "4", "5", "6", "7", "8", "9">>[k + 1]
  IN <<d(n \div 100), d((n \div 10) % 10), d(n % 10)>>

\* the template literal of the default error message
DefaultErrMsg(code) ==
  <<"U+9001", "U+4FE1", "U+306B", "U+5931", "U+6557", "U+3057", "U+307E",
    "U+3057", "U+305F", SP, "(">> \o StatusDigits(code) \o <<")">>

\* postContact: json?.error || json?.message || `... (${resp.status})`, as
\* the string the Error constructor stores
ErrMsg(json, code) ==
  ToStr(OrElse(OrElse(Prop(json, K_error), Prop(json, K_message)),
               JsStr(DefaultErrMsg(code))))

\* what the promise of postContact settled with
NoResult ==
  [kind |-> "none", name |-> "", status |-> 0, message |-> <<>>,
   value |-> JsUndefined]
Resolved(json) ==
  [kind |-> "resolved", name |-> "", status |-> 0, message |-> <<>>,
   value |-> json]
\* class ContactFormError: message, name, status, body
ContactFormError(message, code, body) ==
  [kind |-> "rejected", name |-> "ContactFormError", status |-> code,
   message |-> message, value |-> body]
\* the errors of fetch and resp.text(): a TypeError, or the AbortError of
\* controller.abort()
PlatformError(name) ==
  [kind |-> "rejected", name |-> name, status |-> 0, message |-> <<>>,
   value |-> JsUndefined]

\* opts?.onStart?.(), opts?.onSuccess?.(json), opts?.onError?.(err)
NoCallbacks == [onStart |-> 0, onSuccess |-> 0, onError |-> 0]
Called(cb, name, n) == [cb EXCEPT ![name] = @ + n]

\* isContactResult (contact.ts): typeof obj === 'object' && (obj.previewUrl
\* === undefined || typeof obj.previewUrl === 'string'); reading a property
\* of null throws
isContactResult(obj) ==
  IF obj.t \notin {"object", "null", "array"} THEN "false"
  ELSE IF obj.t = "null" THEN "throws"
  ELSE IF Prop(obj, K_previewUrl).t \in {"undefined", "string"} THEN "true"
  ELSE "false"

ClientInit ==
  /\ page \in Pages
  /\ cpc = "idle"
  /\ fields = NoFields
  /\ busy = FALSE
  /\ formReset = FALSE
  /\ abortTimer = FALSE
  /\ settled = "none"
  /\ fetches = <<>>
  /\ postCalls = 0
  /\ focused = "none"
  /\ result = NoResult
  /\ callbacks = NoCallbacks
  /\ resp = NoResp
  /\ looseTimers = 0
  /\ btnLabel = "original"
  \* attachCareersForm warns at once when no API key is configured
  /\ IF page.form = "careers" /\ page.apiKey = <<>>
     THEN status = "noKeyWarning" /\ statusTimer = TRUE
     ELSE status = "" /\ statusTimer = FALSE

\* no page is observed
ClientAbsent ==
  /\ page = NoPage
  /\ cpc = "idle"
  /\ fields = NoFields
  /\ busy = FALSE
  /\ formReset = FALSE
  /\ abortTimer = FALSE
  /\ settled = "none"
  /\ fetches = <<>>
  /\ postCalls = 0
  /\ focused = "none"
  /\ result = NoResult
  /\ callbacks = NoCallbacks
  /\ resp = NoResp
  /\ looseTimers = 0
  /\ btnLabel = "original"
  /\ status = ""
  /\ statusTimer = FALSE

(***************************************************************************)
(* The theme scripts: theme-toggle.ts and the bundled script with the      *)
(* observer that re-applies the stored theme.  The --header-height style   *)
(* property and the logos are not part of the state.                       *)
(***************************************************************************)
Themes     == {"auto", "light", "dark", "high-contrast"}
NoAttr     == "none"
AttrValues == (Themes \ {"auto"}) \cup {NoAttr}
NoRafs     == [theme |-> 0, font |-> 0]

\* how many select, attribute and media events a page sees, and how many
\* runs of the observer callback are followed after one event
MaxChanges      == 2
MaxObserverRuns == 3

\* getStoredTheme
getStoredTheme == IF script = "js" THEN cachedTheme ELSE stored

\* removeAttribute('data-theme') for 'auto', setAttribute otherwise
AttrAfter(theme) == IF theme = "auto" THEN NoAttr ELSE theme

\* the mutation records the attribute change queues: setAttribute queues
\* one even when the value stays the same, removeAttribute only when the
\* attribute is there
RecordsQueued(theme, a) ==
  IF theme = "auto" /\ a = NoAttr THEN 0 ELSE 1

\* the state after DOMContentLoaded: the stored theme applied before the
\* observer is registered, the measuring callbacks scheduled
ThemeInit ==
  /\ script \in {"js", "ts"}
  /\ stored \in Themes
  /\ cachedTheme = IF script = "js" THEN stored ELSE "null"
  /\ attr = AttrAfter(stored)
  /\ records = 0
  /\ observerRuns = 0
  /\ changes = 0
  /\ applies = 1
  /\ IF script = "js"
     THEN \* applyTheme and applyFontSize each requested a frame;
          \* setHeaderHeight() ran once
          /\ rafs = [theme |-> 1, font |-> 1]
          /\ timers = 0
          /\ baselineAt = IF stored # "dark" THEN {attr} ELSE {}
     ELSE \* the 120 ms and 360 ms timers, which write the baseline when
          \* the theme read at initialisation was not dark
          /\ rafs = NoRafs
          /\ timers = IF stored # "dark" THEN 2 ELSE 0
          /\ baselineAt = {}

\* no theme script is observed
ThemeAbsent ==
  /\ script = "none"
  /\ stored = "auto"
  /\ cachedTheme = "null"
  /\ attr = NoAttr
  /\ records = 0
  /\ rafs = NoRafs
  /\ timers = 0
  /\ baselineAt = {}
  /\ observerRuns = 0
  /\ changes = 0
  /\ applies = 0

Init ==
  \/ ServerInit /\ ClientAbsent /\ ThemeAbsent
  \/ ServerAbsent /\ ClientInit /\ ThemeAbsent
  \/ ServerAbsent /\ ClientAbsent /\ ThemeInit

\* the catch and finally blocks of the submit handlers: the error message
\* (auto-cleared after 5000 ms), the button re-enabled and, on the contact
\* form, the 1800 ms timer that blanks the message
FormCatchFinally ==
  /\ status' = "error"
  /\ statusTimer' = TRUE
  /\ busy' = FALSE
  /\ btnLabel' = "original"
  /\ looseTimers' = IF page.form = "contact" THEN looseTimers + 1 ELSE looseTimers
  /\ cpc' = "done"

\* the submit event of either form
Submit ==
  /\ page # NoPage /\ cpc = "idle"
  /\ \E raw \in FormValues :
       LET v == ReadForm(raw)
           r == validateContactFields(v)
       IN /\ fields' = v
          /\ IF r.missing # <<>> \/ r.emailInvalid
             THEN \* setError / status.setStatus(combined); return
                  /\ status' = "validation"
                  /\ focused' = r.firstInvalid
                  /\ cpc' = "done"
                  /\ UNCHANGED <<busy, btnLabel, statusTimer, looseTimers,
                                 abortTimer, fetches, postCalls, settled,
                                 callbacks>>
             ELSE IF page.apiKey = <<>> /\ page.form = "contact"
             THEN \* the mock flow: setTimeout(..., 1200); return
                  /\ busy' = TRUE
                  /\ btnLabel' = "sending"
                  /\ status' = "sendingMock"
                  /\ cpc' = "mockWait"
                  /\ UNCHANGED <<statusTimer, looseTimers, abortTimer, fetches,
                                 postCalls, settled, focused, callbacks>>
             ELSE IF page.apiKey = <<>>
             THEN \* careers: throw new Error('API key ...'), catch, finally
                  /\ FormCatchFinally
                  /\ UNCHANGED <<abortTimer, fetches, postCalls, settled,
                                 focused, callbacks>>
             ELSE \* postContact: the abort timer is set, fetch is called
                  /\ busy' = TRUE
                  /\ btnLabel' = "sending"
                  /\ status' = "sending"
                  /\ postCalls' = postCalls + 1
                  /\ callbacks' = Called(callbacks, "onStart", 1)
                  /\ abortTimer' = TRUE
                  /\ fetches' = Append(fetches, FetchCall(page.apiKey, Payload(v)))
                  /\ cpc' = "awaitFetch"
                  /\ UNCHANGED <<statusTimer, looseTimers, settled, focused>>
  /\ UNCHANGED <<page, formReset, resp, result>>
  /\ UNCHANGED <<serverVars, themeVars>>

\* the mock flow's timer without form.reset()
MockFires_NoReset ==
  /\ cpc = "mockWait"
  /\ status' = "success"
  /\ statusTimer' = TRUE
  /\ busy' = FALSE
  /\ btnLabel' = "original"
  /\ cpc' = "done"
  /\ UNCHANGED <<page, fields, formReset, abortTimer, settled, fetches,
                 postCalls, resp, looseTimers, focused, result, callbacks>>
  /\ UNCHANGED <<serverVars, themeVars>>

\* the mock flow's 1200 ms timer (contact form)
MockFires ==
  /\ cpc = "mockWait"
  /\ status' = "success"
  /\ statusTimer' = TRUE
  /\ formReset' = TRUE
  /\ busy' = FALSE
  /\ btnLabel' = "original"
  /\ cpc' = "done"
  /\ UNCHANGED <<page, fields, abortTimer, settled, fetches, postCalls, resp,
                 looseTimers, focused, result, callbacks>>
  /\ UNCHANGED <<serverVars, themeVars>>

\* postContact: fetch resolved with a response; clearTimeout; resp.text()
FetchResponded ==
  /\ cpc = "awaitFetch"
  /\ \E r \in FetchResponses : resp' = r
  /\ abortTimer' = FALSE
  /\ cpc' = "awaitText"
  /\ UNCHANGED <<page, fields, busy, status, formReset, settled, fetches,
                 postCalls, statusTimer, looseTimers, btnLabel, focused, result,
                 callbacks>>
  /\ UNCHANGED <<serverVars, themeVars>>

\* postContact: fetch rejected (network error); catch, clearTimeout, rethrow;
\* the submit handler's catch and finally
FetchFailed ==
  /\ cpc = "awaitFetch"
  /\ abortTimer' = (page.lib = "kept")
  /\ settled' = "rejectedNetwork"
  /\ result' = PlatformError("TypeError")
  /\ callbacks' = Called(callbacks, "onError", 1)
  /\ FormCatchFinally
  /\ UNCHANGED <<page, fields, formReset, fetches, postCalls, resp, focused>>
  /\ UNCHANGED <<serverVars, themeVars>>

\* postContact: the abort timer fires, controller.abort() rejects the fetch
AbortTimerFires ==
  /\ abortTimer /\ cpc = "awaitFetch"
  /\ abortTimer' = FALSE
  /\ settled' = "rejectedAbort"
  /\ result' = PlatformError("AbortError")
  /\ callbacks' = Called(callbacks, "onError", 1)
  /\ FormCatchFinally
  /\ UNCHANGED <<page, fields, formReset, fetches, postCalls, resp, focused>>
  /\ UNCHANGED <<serverVars, themeVars>>

\* postContact: the abort timer fires after the call has settled (the copy
\* that does not clear it when fetch rejects): controller.abort() on a
\* finished fetch
AbortTimerFiresLate ==
  /\ abortTimer /\ cpc # "awaitFetch"
  /\ abortTimer' = FALSE
  /\ UNCHANGED <<page, cpc, fields, busy, status, formReset, settled, resp,
                 statusTimer, looseTimers, btnLabel, fetches, postCalls, focused,
                 result, callbacks>>
  /\ UNCHANGED <<serverVars, themeVars>>

\* postContact: resp.text() rejected; catch, rethrow; the handler's catch
TextFailed ==
  /\ cpc = "awaitText"
  /\ settled' = "rejectedBody"
  /\ result' = PlatformError("TypeError")
  /\ callbacks' = Called(callbacks, "onError", 1)
  /\ FormCatchFinally
  /\ UNCHANGED <<page, fields, formReset, abortTimer, fetches, postCalls, resp,
                 focused>>
  /\ UNCHANGED <<serverVars, themeVars>>

\* postContact: the text is read and parsed; a response that is not ok
\* rejects, any other resolves; then the submit handler continues
TextRead ==
  /\ cpc = "awaitText"
  /\ IF ~RespOk(resp)
     THEN \* onError(err); throw err; then the catch block: onError(err) again
          /\ settled' = "rejectedHttp"
          /\ result' = LET json == ParsedBody(BodyText(resp.body))
                       IN ContactFormError(ErrMsg(json, resp.status),
                                           resp.status, json)
          /\ callbacks' = Called(callbacks, "onError", 2)
          /\ FormCatchFinally
          /\ UNCHANGED formReset
     ELSE /\ settled' = "resolved"
          /\ result' = Resolved(ParsedBody(BodyText(resp.body)))
          /\ callbacks' = Called(callbacks, "onSuccess", 1)
          /\ IF page.form = "careers"
             THEN \* success message (2500 ms), form.reset(), setBusy(false)
                  /\ status' = "success"
                  /\ statusTimer' = TRUE
                  /\ formReset' = TRUE
                  /\ busy' = FALSE
                  /\ btnLabel' = "original"
                  /\ looseTimers' = looseTimers
                  /\ cpc' = "done"
             ELSE IF isContactResult(ParsedBody(BodyText(resp.body))) = "throws"
             THEN \* isContactResult(null) throws a TypeError: catch, finally
                  /\ FormCatchFinally
                  /\ UNCHANGED formReset
             ELSE \* contact: the type guard, the preview link, finally
                  /\ status' =
                       IF isContactResult(ParsedBody(BodyText(resp.body))) = "false"
                       THEN "badResponse" ELSE status
                  /\ statusTimer' = statusTimer
                  /\ formReset' = formReset
                  /\ busy' = FALSE
                  /\ btnLabel' = "original"
                  /\ looseTimers' = looseTimers + 1
                  /\ cpc' = "done"
  /\ UNCHANGED <<page, fields, abortTimer, fetches, postCalls, resp, focused>>
  /\ UNCHANGED <<serverVars, themeVars>>

\* the status controller's auto-clear timer
StatusTimerFires ==
  /\ statusTimer
  /\ status' = ""
  /\ statusTimer' = FALSE
  /\ UNCHANGED <<page, cpc, fields, busy, formReset, abortTimer, settled,
                 fetches, postCalls, resp, looseTimers, btnLabel, focused, result,
                 callbacks>>
  /\ UNCHANGED <<serverVars, themeVars>>

\* the contact form's setTimeout(() => status.setStatus(''), 1800)
LooseTimerFires ==
  /\ looseTimers > 0
  /\ status' = ""
  /\ looseTimers' = looseTimers - 1
  /\ UNCHANGED <<page, cpc, fields, busy, formReset, abortTimer, settled,
                 fetches, postCalls, resp, statusTimer, btnLabel, focused, result,
                 callbacks>>
  /\ UNCHANGED <<serverVars, themeVars>>

ClientNext ==
  \/ Submit
  \/ MockFires
  \/ FetchResponded
  \/ FetchFailed
  \/ AbortTimerFires
  \/ AbortTimerFiresLate
  \/ TextFailed
  \/ TextRead
  \/ StatusTimerFires
  \/ LooseTimerFires

\* applyTheme(theme): the attribute, the mutation record it queues, and (in
\* the bundled script) the frame callback that calls setHeaderHeight
applyTheme(theme) ==
  /\ attr' = AttrAfter(theme)
  /\ records' = records + RecordsQueued(theme, attr)
  /\ applies' = applies + 1
  /\ rafs' = IF script = "js" THEN [rafs EXCEPT !.theme = @ + 1] ELSE rafs

\* a task of the page starts only when the microtasks (the observer
\* callback among them) have run
TaskMayRun == script # "none" /\ records = 0

\* the change event of the theme select
SelectChange ==
  /\ TaskMayRun /\ changes < MaxChanges
  /\ \E v \in Themes \ {stored} :
       /\ stored' = v
       /\ cachedTheme' = IF script = "js" THEN v ELSE cachedTheme
       /\ applyTheme(v)
  /\ changes' = changes + 1
  /\ observerRuns' = 0
  /\ UNCHANGED <<script, timers, baselineAt>>
  /\ UNCHANGED <<serverVars, clientVars>>

\* another script (a test) sets or removes data-theme
ExternalAttrChange ==
  /\ TaskMayRun /\ changes < MaxChanges
  /\ \E v \in AttrValues \ {attr} : attr' = v
  /\ records' = records + 1
  /\ changes' = changes + 1
  /\ observerRuns' = 0
  /\ UNCHANGED <<script, stored, cachedTheme, rafs, timers, baselineAt,
                 applies>>
  /\ UNCHANGED <<serverVars, clientVars>>

\* mqHandler: prefers-color-scheme changed
MediaChange ==
  /\ TaskMayRun /\ changes < MaxChanges
  /\ getStoredTheme = "auto"
  /\ applyTheme("auto")
  /\ changes' = changes + 1
  /\ observerRuns' = 0
  /\ UNCHANGED <<script, stored, cachedTheme, timers, baselineAt>>
  /\ UNCHANGED <<serverVars, clientVars>>

\* the change event of the font size select (bundled script):
\* applyFontSize requests a frame for setHeaderHeight
FontChange ==
  /\ TaskMayRun /\ script = "js" /\ changes < MaxChanges
  /\ rafs' = [rafs EXCEPT !.font = @ + 1]
  /\ changes' = changes + 1
  /\ UNCHANGED <<script, stored, cachedTheme, attr, records, timers,
                 baselineAt, observerRuns, applies>>
  /\ UNCHANGED <<serverVars, clientVars>>

\* the observer callback of the bundled script: applyTheme(getStoredTheme())
\* for every record delivered
ObserverReapplies ==
  /\ script = "js" /\ records > 0 /\ observerRuns < MaxObserverRuns
  /\ attr' = AttrAfter(getStoredTheme)
  /\ records' = RecordsQueued(getStoredTheme, attr)
                  + (records - 1) * RecordsQueued(getStoredTheme, attr')
  /\ applies' = applies + records
  /\ rafs' = [rafs EXCEPT !.theme = @ + records]
  /\ observerRuns' = observerRuns + 1
  /\ UNCHANGED <<script, stored, cachedTheme, timers, baselineAt, changes>>
  /\ UNCHANGED <<serverVars, clientVars>>

\* the observer callback of theme-toggle.ts: for every record delivered,
\* when data-theme is not dark two timers that measure the header and
\* write the baseline
ObserverMeasures ==
  /\ script = "ts" /\ records > 0
  /\ timers' = IF attr # "dark" THEN timers + 2 * records ELSE timers
  /\ records' = 0
  /\ observerRuns' = observerRuns + 1
  /\ UNCHANGED <<script, stored, cachedTheme, attr, rafs, baselineAt, changes,
                 applies>>
  /\ UNCHANGED <<serverVars, clientVars>>

\* setHeaderHeight of the bundled script: the baseline is written when the
\* stored theme is not dark
setHeaderHeight ==
  baselineAt' = IF getStoredTheme # "dark" THEN baselineAt \cup {attr}
                ELSE baselineAt

\* an animation frame of the bundled script: every requested callback calls
\* setHeaderHeight, and the callbacks of applyTheme set the 360 ms timer
Frame ==
  /\ TaskMayRun /\ script = "js" /\ rafs # NoRafs
  /\ setHeaderHeight
  /\ timers' = timers + rafs.theme
  /\ rafs' = NoRafs
  /\ UNCHANGED <<script, stored, cachedTheme, attr, records, observerRuns,
                 changes, applies>>
  /\ UNCHANGED <<serverVars, clientVars>>

\* a delayed timer fires: setHeaderHeight in the bundled script; in
\* theme-toggle.ts the measurement is written to the baseline as it is
DelayedTimerFires ==
  /\ TaskMayRun /\ timers > 0
  /\ IF script = "js" THEN setHeaderHeight
     ELSE baselineAt' = baselineAt \cup {attr}
  /\ timers' = timers - 1
  /\ UNCHANGED <<script, stored, cachedTheme, attr, records, rafs,
                 observerRuns, changes, applies>>
  /\ UNCHANGED <<serverVars, clientVars>>

ThemeNext ==
  \/ SelectChange
  \/ ExternalAttrChange
  \/ MediaChange
  \/ FontChange
  \/ ObserverReapplies
  \/ ObserverMeasures
  \/ Frame
  \/ DelayedTimerFires

Next == ServerNext \/ ClientNext \/ ThemeNext

Spec == Init /\ [][Next]_vars

(***************************************************************************)
(* Properties                                                              *)
(***************************************************************************)
Required == {"subject", "name", "email", "message"}

\* a request is being or has been handled by a server
Handling == impl # "none" /\ pc # "idle"

\* the request carries the configured, non-empty key
KeyAccepted ==
  /\ env.API_KEY.t = "string" /\ env.API_KEY.v # <<>>
  /\ req.key.t = "string" /\ req.key.v = env.API_KEY.v

\* every required field of the body is truthy
AllPresent == \A f \in Required : Truthy(req.body[f])

\* the number of outbound network calls attempted
NetworkCalls == Count("createTestAccount", calls) + Count("sendMail", calls)

\* C1: a request whose x-api-key header is absent, differs from API_KEY or
\* arrives while API_KEY is unset or empty is answered 401 Unauthorized and
\* nothing else happens to it: no field is sanitized, no call is made,
\* whatever its body holds.
C1_Unauthorized401 ==
  (Handling /\ pc # "auth" /\ ~KeyAccepted) =>
     /\ pc = "done" /\ res = <<R401>>
     /\ safe = NoSafe /\ mail = NoMail /\ calls = <<>>
     /\ stages = <<"Validate", "Respond">>

\* C1 witness: a wrong key with an invalid email in the body, answered 401
C1_Witness ==
  /\ pc = "done" /\ res = <<R401>>
  /\ env.API_KEY = JsStr(ApiKey) /\ req.key = JsStr(<<"K", "1">>)
  /\ req.body.email = JsStr(<<"a", "@", "b">>)

\* C2: an authorized request with a required field missing or falsy is
\* answered 400 Missing required fields, and sendMail is never called for it.
C2_MissingFields400 ==
  (Handling /\ pc \notin {"auth", "fields"} /\ KeyAccepted /\ ~AllPresent) =>
     /\ pc = "done" /\ res = <<R400Missing>>
     /\ Count("sendMail", calls) = 0

\* C2 witness: the only falsy field is the message, an empty string
C2_Witness ==
  /\ pc = "done" /\ res = <<R400Missing>>
  /\ req.body.message = JsStr(<<>>)
  /\ \A f \in Required \ {"message"} : Truthy(req.body[f])

\* the email of the body as the handler tests it: converted to a string,
\* CR and LF replaced by spaces, trimmed, cut to EmailMax characters
SanitizedEmail == sanitizeHeader(req.body.email, EmailMax)

\* the handler of index.ts is past its email check
PastEmailCheck ==
  impl = "ts" /\ pc \notin {"idle", "auth", "fields", "sanitize", "email"}

\* the request has been composed into a mail, or handed to sendMail
ComposedOrSent ==
  mail # NoMail \/ Count("Compose", stages) > 0 \/ Count("sendMail", calls) > 0

\* C3 as stated: an authorized request with all four fields present whose
\* email, as submitted, does not match the pattern is answered 400 Invalid
\* email, and no request with such an email is composed or sent.
C3_Original ==
  (PastEmailCheck /\ KeyAccepted /\ AllPresent
     /\ ~EmailReTest(ToStr(req.body.email))) =>
       /\ pc = "done" /\ res = <<R400Email>>
       /\ ~ComposedOrSent

\* C3 amended: an authorized request with all four fields present whose
\* sanitized email does not match the pattern is answered 400 Invalid email
\* and is never composed or sent; every request of index.ts that is
\* composed or sent has a sanitized email that matches.
C3_InvalidSanitizedEmail400 ==
  /\ (PastEmailCheck /\ KeyAccepted /\ AllPresent /\ ~EmailReTest(SanitizedEmail)) =>
        /\ pc = "done" /\ res = <<R400Email>>
        /\ ~ComposedOrSent
  /\ (impl = "ts" /\ ComposedOrSent) => EmailReTest(SanitizedEmail)

\* C3 witness: "a@b.c" (a one-letter top-level domain) is answered 400
C3_Witness ==
  /\ impl = "ts" /\ pc = "done" /\ res = <<R400Email>>
  /\ req.body.email = JsStr(<<"a", "@", "b", ".", "c">>)

\* C4: a request answered 401 or 400 has had no external call attempted:
\* no createTestAccount, no createTransport, no sendMail.
C4_NoExternalCallBeforeRejection ==
  \A i \in 1..Len(res) : res[i].status \in {400, 401} => calls = <<>>

\* C4 witness: an authorized request rejected for its email, no call made
C4_Witness ==
  /\ pc = "done" /\ res = <<R400Email>> /\ calls = <<>>
  /\ KeyAccepted /\ ~Truthy(env.SMTP_HOST)

\* the LF characters the text template itself contributes
TemplateLFs == IF safe.company # <<>> THEN 5 ELSE 4

\* C5: whatever CR and LF the submitted subject, name, email and company
\* hold, the composed subject line holds no CR and no LF, and every CR and
\* LF of the text body is the template's own or the sanitized message's.
C5_NoCRLFFromHeaderFields ==
  (impl = "ts" /\ mail # NoMail) =>
     /\ Count(CR, mail.subject) = 0 /\ Count(LF, mail.subject) = 0
     /\ Count(CR, mail.text) = Count(CR, sanitizeMessage(req.body.message))
     /\ Count(LF, mail.text) =
          TemplateLFs + Count(LF, sanitizeMessage(req.body.message))

\* C5 witness: the subject "Hi\r\nBcc: e@x" has been composed into a mail
C5_Witness ==
  /\ impl = "ts" /\ mail # NoMail
  /\ req.body.subject =
       JsStr(<<"H", "i", CR, LF, "B", "c", "c", ":", SP, "e", "@", "x">>)
  /\ Count("sendMail", calls) = 1

\* the body's value of a field is blank: nothing is left of it once null
\* bytes are removed and it is trimmed
Blank(x) == Trim(ReplaceAll(ToStr(x), NUL, <<>>)) = <<>>

\* C6: every submission composed into a mail has subject, name, email and
\* message non-empty, before and after sanitization, and an email that
\* matches the pattern; a request whose subject, name or message is only
\* whitespace, CR/LF or null bytes is never composed.
C6_ComposedFieldsNonEmpty ==
  (impl = "ts" /\ ComposedOrSent) =>
     /\ \A f \in Required : safe[f] # <<>> /\ Trim(safe[f]) # <<>>
     /\ \A f \in Required : ~Blank(req.body[f])
     /\ EmailReTest(safe.email)

\* the stages entered, the response left out
Processing == SelectSeq(stages, LAMBDA st : st # "Respond")

StageOrder == <<"Validate", "Compose", "Sanitize", "Send">>

\* C7: the stages are entered in the order Validate, Compose, Sanitize,
\* Send, Respond, each at most once and only after every earlier one
\* succeeded; the response comes last, and a 200 response only after the
\* send completed successfully.
C7_StageOrder ==
  impl = "ts" =>
    /\ Len(Processing) <= Len(StageOrder)
    /\ Processing = SubSeq(StageOrder, 1, Len(Processing))
    /\ \A i \in 2..Len(Processing) : StageOrder[i - 1] \in okStages
    /\ Count("Respond", stages) <= 1
    /\ Count("Respond", stages) = Len(res)
    /\ \A i \in 1..Len(stages) : stages[i] = "Respond" => i = Len(stages)
    /\ okStages \subseteq { Processing[i] : i \in 1..Len(Processing) }
    /\ \A i \in 1..Len(res) :
         res[i].status = 200 =>
           /\ okStages = {"Validate", "Compose", "Sanitize", "Send"}
           /\ stages = StageOrder \o <<"Respond">>

\* C7 witness: a request went through all five stages and was answered 200
C7_Witness ==
  /\ impl = "ts" /\ pc = "done"
  /\ stages = <<"Validate", "Compose", "Sanitize", "Send", "Respond">>
  /\ res # <<>> /\ res[1].status = 200

\* the responses of the interface
Responses ==
  {R401, R400Missing, R400Email, R500Send, R500SanitizeOrSend}
    \cup { R200(u) : u \in PreviewUrls \cup {JsNull} }

\* no response before the handler ends, none after the first, and the one
\* response is one of the six of the interface
OneOfSixAtMostOnce ==
  /\ Len(res) <= 1
  /\ res # <<>> => pc = "done"
  /\ pc = "done" => Len(res) = 1 /\ res[1] \in Responses

\* the positions of the handler, in the order of its code
PcOrder ==
  <<"idle", "auth", "fields", "sanitize", "email", "transport",
    "awaitAccount", "compose", "purify", "send", "awaitSend", "done">>

Rank(p) == CHOOSE i \in 1..Len(PcOrder) : PcOrder[i] = p

\* C8: a request whose external calls return or throw ends with exactly one
\* response, one of the six of the interface: no response is sent before
\* the handler ends, none after the first; the handler is always at a
\* position of its code and every step takes it strictly forward (no loop,
\* no second pass), so with its awaited calls settling it reaches the end.
C8_ExactlyOneResponse ==
  /\ [](impl = "ts" => OneOfSixAtMostOnce)
  /\ [](impl = "ts" => \E i \in 1..Len(PcOrder) : PcOrder[i] = pc)
  /\ [][(impl = "ts" /\ pc # "idle" /\ other' = other) =>
          Rank(pc') > Rank(pc)]_vars

\* C8 witness: a request answered 500 Failed to send after the test account
\* could not be provisioned
C8_Witness ==
  /\ impl = "ts" /\ pc = "done" /\ res = <<R500Send>>
  /\ calls = <<"createTestAccount">>

\* C9: no retries. sendMail is invoked at most once per server request, a
\* failed send included; a form submit calls postContact at most once and
\* postContact calls fetch at most once; a postContact that rejects has
\* issued its one request, and the submit handler ends with the failure.
C9_NoRetries ==
  /\ Count("sendMail", calls) <= 1
  /\ postCalls <= 1
  /\ Len(fetches) <= postCalls
  /\ settled \in Rejections => Len(fetches) = 1 /\ cpc = "done" /\ ~busy
  /\ \A i \in 1..Len(res) : res[i].status = 500 => pc = "done"

\* C9 witness: a send failed and was answered 500, sendMail called once
C9_Witness ==
  /\ pc = "done" /\ res = <<R500SanitizeOrSend>>
  /\ calls = <<"createTestAccount", "createTransport", "sendMail">>

\* C10 as stated: a request that passed validation has, when it is
\* answered, had exactly one outbound network call (SMTP host or test
\* account alike).
C10_Original ==
  (impl = "ts" /\ "Validate" \in okStages /\ pc = "done") => NetworkCalls = 1

\* C10 amended: a request that passed validation has sendMail called at
\* most once, preceded in test-account mode (and only then) by one
\* createTestAccount call; no response is sent while a call is pending; a
\* 200 response follows exactly one completed sendMail, the only outbound
\* call with an SMTP host, the second without.
C10_CallsAwaitedBeforeResponse ==
  (impl = "ts" /\ "Validate" \in okStages) =>
    /\ Count("sendMail", calls) <= 1
    /\ Count("createTestAccount", calls) =
         (IF Truthy(env.SMTP_HOST) \/ pc = "transport" THEN 0 ELSE 1)
    /\ pc \in {"awaitAccount", "awaitSend"} => res = <<>>
    /\ \A i \in 1..Len(res) :
         res[i].status = 200 =>
           /\ "Send" \in okStages
           /\ calls[Len(calls)] = "sendMail"
           /\ NetworkCalls = (IF Truthy(env.SMTP_HOST) THEN 1 ELSE 2)
    /\ pc = "done" => NetworkCalls <= 2

\* C10 witness: a 200 response in test-account mode, after two calls
C10_Witness ==
  /\ impl = "ts" /\ pc = "done" /\ res # <<>> /\ res[1].status = 200
  /\ ~Truthy(env.SMTP_HOST) /\ NetworkCalls = 2

\* the stages after validation
LaterStages == {"Compose", "Sanitize", "Send"}

\* C11: a request that passed validation and then met a failure is answered
\* 500, never 200 or 4xx: 500 Failed to sanitize or send email when the
\* failure came while sanitizing the HTML or sending, 500 Failed to send
\* with details when it came earlier (test-account provisioning); 200 is
\* answered only when every stage completed.
C11_FailureAfterValidationIs500 ==
  (impl = "ts" /\ pc = "done" /\ "Validate" \in okStages) =>
     /\ Len(res) = 1
     /\ IF LaterStages \subseteq okStages
        THEN res[1].status = 200
        ELSE /\ res[1].status = 500
             /\ res[1] = (IF Has("Sanitize", stages)
                          THEN R500SanitizeOrSend ELSE R500Send)
     /\ res[1] = R500Send => res[1].keys = {"error", "details"}
     /\ res[1] = R500SanitizeOrSend => res[1].keys = {"error"}

\* C11 witness: the sanitizer threw, answered 500 with no sendMail call
C11_Witness ==
  /\ impl = "ts" /\ pc = "done" /\ res = <<R500SanitizeOrSend>>
  /\ Has("Sanitize", stages) /\ ~Has("sendMail", calls)

\* a non-empty string
NonEmptyString(x) == x.t = "string" /\ x.v # <<>>

TransportCreated == impl = "ts" /\ transport # NoTransport

Port465 == <<"4", "6", "5">>

\* the configured port reads 465 once surrounding whitespace is dropped
PortIs465Trimmed ==
  /\ env.SMTP_PORT.t = "string"
  /\ LET v == env.SMTP_PORT.v
     IN \E k \in 1..Len(v) :
          /\ k + 2 <= Len(v)
          /\ SubSeq(v, k, k + 2) = Port465
          /\ \A i \in 1..Len(v) : i \notin k..(k + 2) => IsWhiteSpace(v[i])

\* C13 as stated: with an SMTP host the secure flag is true exactly when
\* SMTP_PORT is the string "465", surrounding whitespace making it false;
\* without a host it is false.
C13_Original ==
  TransportCreated =>
    transport.secure =
      (Truthy(env.SMTP_HOST) /\ env.SMTP_PORT = JsStr(Port465))

\* C13 amended: with an SMTP host the secure flag is true exactly when
\* SMTP_PORT, with surrounding whitespace dropped, is the string "465"
\* (an unset or empty port, "587", "4650" and "4 65" give false); without a
\* host the test transport has secure false whatever the port.
C13_SecureIffTrimmedPort465 ==
  TransportCreated =>
    /\ transport.secure = (Truthy(env.SMTP_HOST) /\ PortIs465Trimmed)
    /\ transport.usingTestAccount => ~transport.secure

\* C13 witness: a mail sent through a host configured with port "465"
C13_Witness ==
  /\ TransportCreated /\ transport.secure /\ Truthy(env.SMTP_HOST)
  /\ env.SMTP_PORT = JsStr(Port465)
  /\ pc = "done" /\ res = <<R200(JsNull)>>

\* a mail has been composed by the handler of index.ts
MailComposed == impl = "ts" /\ mail # NoMail

\* C14: the recipient of every mail is the configured TO_EMAIL when one is
\* set (non-empty); otherwise, in test mode only, the mailbox of the test
\* account; otherwise the hard-coded fallback. With an SMTP host and no
\* TO_EMAIL it is the fallback, never a test mailbox.
C14_RecipientOrder ==
  MailComposed =>
    /\ mail.to =
         (IF Truthy(env.TO_EMAIL) THEN env.TO_EMAIL
          ELSE IF ~Truthy(env.SMTP_HOST) THEN TestAccountUser
          ELSE FallbackTo)
    /\ (Truthy(env.SMTP_HOST) /\ ~Truthy(env.TO_EMAIL)) =>
         mail.to = FallbackTo /\ mail.to # TestAccountUser
    /\ ~Truthy(env.SMTP_HOST) = transport.usingTestAccount

\* C14 witness: test mode with an empty TO_EMAIL, the mail handed to
\* sendMail for the test mailbox
C14_Witness ==
  /\ MailComposed /\ Has("sendMail", calls)
  /\ env.TO_EMAIL = JsStr(<<>>) /\ ~Truthy(env.SMTP_HOST)
  /\ mail.to = TestAccountUser

\* C15: the sender of every mail is the configured FROM_EMAIL when one is
\* set (non-empty); otherwise the resolved recipient; otherwise the fixed
\* fallback; it is never empty.
C15_SenderOrder ==
  MailComposed =>
    /\ mail.from =
         (IF Truthy(env.FROM_EMAIL) THEN env.FROM_EMAIL
          ELSE IF Truthy(mail.to) THEN mail.to
          ELSE FallbackFrom)
    /\ NonEmptyString(mail.from)

\* C15 witness: no FROM_EMAIL, a configured TO_EMAIL, the mail handed to
\* sendMail with the recipient as its sender
C15_Witness ==
  /\ MailComposed /\ Has("sendMail", calls)
  /\ ~Truthy(env.FROM_EMAIL) /\ env.TO_EMAIL = JsStr(ToAddress)
  /\ mail.from = JsStr(ToAddress)

\* the handler of index.ts has computed the sanitized fields of the request
FieldsSanitized ==
  /\ impl = "ts" /\ pc \notin {"idle", "auth", "fields", "sanitize"}
  /\ res \notin {<<R401>>, <<R400Missing>>}

\* the submitted message as a string, its null bytes dropped
MessageSansNul ==
  SelectSeq(ToStr(DefaultEmpty(req.body.message)), LAMBDA c : c # NUL)

\* kept is what is left of raw once the whitespace at its two ends is
\* dropped and the rest is cut to at most max characters: every character
\* in between, newlines included, is kept in place
TrimmedAndCut(kept, raw, max) ==
  \E k \in 0..Len(raw) :
    /\ \A i \in 1..k : IsWhiteSpace(raw[i])
    /\ k + Len(kept) <= Len(raw)
    /\ k < Len(raw) => ~IsWhiteSpace(raw[k + 1])
    /\ kept = SubSeq(raw, k + 1, k + Len(kept))
    /\ \/ Len(kept) = max
       \/ /\ Len(kept) < max
          /\ \A i \in (k + Len(kept) + 1)..Len(raw) : IsWhiteSpace(raw[i])
          /\ kept # <<>> => ~IsWhiteSpace(kept[Len(kept)])

Entities ==
  { <<"&", "a", "m", "p", ";">>, <<"&", "l", "t", ";">>, <<"&", "g", "t", ";">>,
    <<"&", "q", "u", "o", "t", ";">>, <<"&", "#", "3", "9", ";">> }

\* the characters escapeHtml replaces
HtmlSpecial == {"&", "<", ">", DQ, "'"}

\* text that can be put into HTML: none of <, >, the two quotes, and every
\* & begins an entity
HtmlSafe(t) ==
  /\ \A i \in 1..Len(t) : t[i] \notin {"<", ">", DQ, "'"}
  /\ \A i \in 1..Len(t) :
       t[i] = "&" =>
         \E ent \in Entities :
           /\ i + Len(ent) - 1 <= Len(t)
           /\ SubSeq(t, i, i + Len(ent) - 1) = ent

\* the length of the escaped form of t: each special character grows into
\* its entity
EscapedLen(t) ==
  Len(t) + 4 * Count("&", t) + 3 * Count("<", t) + 3 * Count(">", t)
         + 5 * Count(DQ, t) + 4 * Count("'", t)

UserFields == {"subject", "name", "email", "company", "message"}

\* C17: every user-supplied field is escaped before it is put into the
\* HTML body: its inserted text holds no raw <, >, " or ', every & in it
\* begins an entity, and nothing of it is lost; the HTML handed to the
\* sanitizer holds, apart from the markup of the template, no such
\* character either, so no field contributes a tag.
C17_FieldsEscapedInHtml ==
  MailComposed =>
    /\ \A f \in UserFields :
         LET inserted == escapeHtml(JsStr(safe[f]))
         IN /\ HtmlSafe(inserted)
            /\ Len(inserted) = EscapedLen(safe[f])
    /\ HtmlSafe(mail.htmlBody)
    /\ Count("&", mail.htmlBody) >=
         Cardinality({ f \in UserFields :
                        \E i \in 1..Len(safe[f]) : safe[f][i] \in HtmlSpecial })

\* C17 witness: a message with a script tag, an entity and a quote has been
\* composed and handed to sendMail
C17_Witness ==
  /\ MailComposed /\ Has("sendMail", calls)
  /\ safe.message =
       <<"<", "s", "c", "r", "i", "p", "t", ">", "&", "l", "t", ";", DQ>>
  /\ Count("&", mail.htmlBody) = 4

\* an ISO-8601 time cut to its seconds, the date and the time separated by
\* a space: YYYY-MM-DD HH:MM:SS
IsoToSeconds(iso) == ReplaceFirst(SubSeq(iso, 1, 19), "T", <<SP>>)

\* C18: the subject line of every composed mail is the fixed prefix, the
\* sanitized subject with no further change to its characters, the company
\* in parentheses when one was supplied, and the time cut to seconds with
\* a space between date and time.
C18_SubjectLineAsSanitized ==
  MailComposed =>
    mail.subject =
      SubjectPrefix \o safe.subject
        \o (IF safe.company # <<>>
            THEN <<SP, "(">> \o safe.company \o <<")">> ELSE <<>>)
        \o <<SP, "U+2014", SP>> \o IsoToSeconds(TestIso)

\* the responses a request can get when it is handled alone under a
\* configuration, one for each way its external calls can turn out
SoloResponses(e, r) ==
  IF Unauthorized(e, r) THEN {R401}
  ELSE IF MissingRequired(r.body) THEN {R400Missing}
  ELSE IF EmailRejected(SanitizedFields(r.body)) THEN {R400Email}
  ELSE IF Truthy(e.SMTP_HOST) THEN {R500SanitizeOrSend, R200(JsNull)}
  ELSE {R500Send, R500SanitizeOrSend} \cup { R200(u) : u \in PreviewUrls }

\* what an invocation holds is what its own request alone determines
OwnRequestOnly(F) ==
  /\ F.safe # NoSafe => F.safe = SanitizedFields(F.req.body)
  /\ F.transport # NoTransport =>
       F.transport.usingTestAccount = ~Truthy(env.SMTP_HOST)
  /\ F.mail # NoMail =>
       F.mail = MailOptions(env, F.transport, SanitizedFields(F.req.body),
                            TestIso, F.req.ip)
  /\ F.pc # "done" => F.res = <<>>
  /\ F.pc = "done" =>
       /\ Len(F.res) = 1
       /\ F.res[1] \in SoloResponses(env, F.req)
       /\ (F.res[1].status = 200) = ("Send" \in F.okStages)
       /\ Has("sendMail", F.calls) => F.mail # NoMail

\* C19: requests handled at the same time do not touch one another: in
\* every interleaving each invocation's sanitized fields, mail and response
\* are those its own request gets when handled alone under the same
\* configuration, clock and call outcomes; the configuration is never
\* written, and the closure of the invocation that waits is left as it is
\* until it is resumed.
C19_RequestsIndependent ==
  /\ [](impl = "ts" => OwnRequestOnly(Closure) /\ OwnRequestOnly(other))
  /\ [][env' = env /\ impl' = impl]_vars
  /\ [][other' # other => (other' = Closure /\ Closure' = other)]_vars

\* C19 witness: a second request, different from the first, has been
\* received, composed and handed to sendMail while the first still awaits
\* its test account
C19_Witness ==
  /\ impl = "ts" /\ pc = "awaitSend" /\ other.pc = "awaitAccount"
  /\ mail # NoMail /\ other.mail = NoMail
  /\ req.body.subject # other.req.body.subject

\* a postContact call has been made and has not settled
CallPending == cpc \in {"awaitFetch", "awaitText"}

\* C20: every postContact call settles within its timeout: as long as the
\* call has not settled its abort timer is pending, so that the timeout
\* cancels the request and rejects the call; a call the timeout cancelled
\* has ended as a failure of the submit; and once the call has settled no
\* abort timer of it is left to fire.
C20_SettlesWithinTimeout ==
  /\ CallPending => abortTimer
  /\ settled = "rejectedAbort" => cpc = "done" /\ ~busy
  /\ settled # "none" => ~abortTimer

\* a form has been submitted
Submitted == page # NoPage /\ cpc # "idle"

\* the four required fields are filled in and the address has the form of one
FieldsValid ==
  /\ \A f \in Required : fields[f] # <<>>
  /\ EmailReTest(fields.email)

\* the status shows message m until the status controller's timer clears it
ShownUntilCleared(m) ==
  \/ status = m /\ statusTimer
  \/ status = "" /\ ~statusTimer

NetworkOrTimeout == {"rejectedNetwork", "rejectedAbort"}

\* C22: after a submission that passed validation and set the submit
\* control busy, the control is eventually re-enabled on every outcome:
\* while it is busy the wait of the handler is bounded by a pending timer
\* (the mock flow's timer or postContact's timeout), once the handler has
\* ended the control is enabled again with its label, and a call that
\* ends with a network error or a timeout shows the error message.
C22_EventuallyReEnabled ==
  /\ [](busy => (cpc = "mockWait" \/ abortTimer))
  /\ [](cpc = "done" => ~busy /\ btnLabel = "original")
  /\ [][(settled = "none" /\ settled' \in NetworkOrTimeout) =>
          (status' = "error" /\ ~busy')]_vars

\* the required fields in the order of the form
FieldOrder == <<"subject", "name", "email", "message">>

\* the first empty required field, or the address when none is empty
FirstInvalidField ==
  LET empty == { i \in 1..Len(FieldOrder) : fields[FieldOrder[i]] = <<>> }
  IN IF empty = {} THEN "email"
     ELSE FieldOrder[CHOOSE i \in empty : \A j \in empty : i <= j]

\* C23: when a required field is empty after trimming or the address does
\* not match the pattern, submitting displays the validation message and
\* focuses the first empty field in the order subject, name, email, message
\* (the address field when only its format is wrong), postContact is not
\* called and the button never becomes busy; validateContactFields reports
\* no error exactly when the four fields are filled in and the address
\* matches.
C23_InvalidFieldsAreRejected ==
  /\ [](Submitted =>
         /\ (validateContactFields(fields).missing = <<>>
              /\ ~validateContactFields(fields).emailInvalid) <=> FieldsValid
         /\ FieldsValid => focused = "none" /\ status # "validation"
         /\ ~FieldsValid =>
              /\ cpc = "done" /\ focused = FirstInvalidField
              /\ ~busy /\ btnLabel = "original"
              /\ postCalls = 0 /\ fetches = <<>> /\ callbacks = NoCallbacks
              /\ ~formReset)
  /\ [][(cpc = "idle" /\ cpc' # "idle" /\ ~FieldsValid') =>
          status' = "validation"]_vars

C23_Witness ==
  /\ Submitted /\ cpc = "done" /\ status = "validation"
  /\ \A f \in Required : fields[f] # <<>>
  /\ ~EmailReTest(fields.email)
  /\ focused = "email" /\ postCalls = 0

\* a valid submission of the careers form on a page with an API key
CareersWithKey ==
  Submitted /\ page.form = "careers" /\ page.apiKey # <<>> /\ FieldsValid

\* payload p holds the four required fields as typed, and the company only
\* when one was typed
PayloadAsTyped(p) ==
  /\ \A f \in Required : p[f].t = "string" /\ p[f].v = fields[f]
  /\ IF fields.company = <<>> THEN p.company.t = "undefined"
     ELSE p.company.t = "string" /\ p.company.v = fields.company

\* C24: a careers-form submission with the four fields valid and an API key
\* in the page metadata calls postContact exactly once, with the payload
\* {subject, name, email, message} plus the company only when it is not
\* empty; when the call resolves the success message is displayed and the
\* form is reset.
C24_CareersPostsOnce ==
  /\ [](CareersWithKey =>
         /\ postCalls = 1 /\ Len(fetches) = 1
         /\ PayloadAsTyped(fetches[1].body)
         /\ settled = "resolved" => formReset /\ cpc = "done" /\ ~busy)
  /\ [][(CareersWithKey /\ settled = "none" /\ settled' = "resolved") =>
          (status' = "success" /\ formReset')]_vars

C24_Witness ==
  /\ CareersWithKey /\ settled = "resolved" /\ status = "success"
  /\ formReset /\ postCalls = 1 /\ fields.company # <<>>

\* two JavaScript values are the same value
SameJs(a, b) == a.t = b.t /\ a.v = b.v

\* the JSON value each kind of body stands for; an empty body stands for
\* {} and a body that is not JSON for { _raw: text }
ExpectedJson(kind) ==
  CASE kind = "object"  -> JsObj(K_ok :> JsTrue)
    [] kind = "objectPreview" ->
         JsObj((K_ok :> JsTrue) @@ (K_previewUrl :> JsStr(<<"/", "p">>)))
    [] kind = "error"   -> JsObj(K_error :> JsStr(<<"b", "a", "d">>))
    [] kind = "message" -> JsObj(K_message :> JsStr(<<"m">>))
    [] kind = "both"    ->
         JsObj((K_error :> JsStr(<<"b", "a", "d">>)) @@ (K_message :> JsStr(<<"m">>)))
    [] kind = "empty"   -> JsObj(<<>>)
    [] kind = "notJson" -> JsObj(K_raw :> JsStr(<<"<", "h", "t", "m", "l", ">">>))
    [] kind = "number"  -> JsNum(7)
    [] kind = "null"    -> JsNull

\* the status as it is written in a message
StatusText(n) ==
  CASE n = 400 -> <<"4", "0", "0">> [] n = 401 -> <<"4", "0", "1">>
    [] n = 500 -> <<"5", "0", "0">> [] n = 502 -> <<"5", "0", "2">>

Contains(s, part) ==
  \E i \in 1..(Len(s) - Len(part) + 1) : SubSeq(s, i, i + Len(part) - 1) = part

\* the message of the error: the body's error, else its message, else a
\* default text with the status in it
ExpectedMessage(kind, m, n) ==
  CASE kind \in {"error", "both"} -> m = <<"b", "a", "d">>
    [] kind = "message"           -> m = <<"m">>
    [] OTHER -> /\ Contains(m, StatusText(n))
                /\ m \notin {<<"b", "a", "d">>, <<"m">>, StatusText(n)}

\* C25: the HTTP response determines how postContact settles.  For an OK
\* response it resolves with the parsed JSON body, with {} when the body is
\* empty and with { _raw: text } when the body is not valid JSON, so that a
\* parse failure never rejects.  For a response that is not OK it rejects
\* with a ContactFormError that carries the status of the response and
\* whose message is the error of the body, else its message, else a default
\* text with the status in it.
C25_OutcomeFollowsResponse ==
  /\ (resp # NoResp /\ settled \notin {"none", "rejectedBody"}) =>
       /\ settled \in {"resolved", "rejectedHttp"}
       /\ settled = "resolved" <=> RespOk(resp)
  /\ settled = "resolved" =>
       /\ result.kind = "resolved"
       /\ SameJs(result.value, ExpectedJson(resp.body))
  /\ settled = "rejectedHttp" =>
       /\ result.kind = "rejected" /\ result.name = "ContactFormError"
       /\ result.status = resp.status
       /\ SameJs(result.value, ExpectedJson(resp.body))
       /\ ExpectedMessage(resp.body, result.message, resp.status)

C25_Witness ==
  /\ settled = "rejectedHttp" /\ resp.status = 502 /\ resp.body = "notJson"
  /\ result.name = "ContactFormError" /\ result.status = 502
  /\ Contains(result.message, <<"5", "0", "2">>)

\* C26: a call of postContact invokes exactly one of onSuccess and onError,
\* and invokes it exactly once: onError once if and only if the promise
\* rejects (responses that are not OK and timeouts included), onSuccess
\* once if and only if it resolves; neither before the call has settled.
C26_ExactlyOneCallback ==
  /\ settled = "none" => callbacks.onSuccess = 0 /\ callbacks.onError = 0
  /\ settled = "resolved" => callbacks.onSuccess = 1 /\ callbacks.onError = 0
  /\ settled \in Rejections => callbacks.onSuccess = 0 /\ callbacks.onError = 1

\* the messages shown with a delay of their own (setStatusWithTimeout)
TimedMessages == {"noKeyWarning", "success", "error"}

\* C27: a status message stays displayed until a newer message replaces it
\* or its own auto-clear timer fires: whenever a displayed message is
\* blanked, it is a message with a delay of its own and the step is the
\* expiry of the status controller's timer set for it, never a timer set
\* for an earlier message nor another clearing timer of a submit handler.
C27_MessageStaysUntilOwnTimer ==
  [][(status # "" /\ status' = "") =>
       /\ status \in TimedMessages
       /\ statusTimer /\ ~statusTimer'
       /\ looseTimers' = looseTimers]_vars

\* the contact form's submission ended: through the mock flow, or with an
\* API response the form accepts
MockEnded == cpc = "mockWait" /\ cpc' = "done"
ApiSucceeded ==
  /\ cpc = "awaitText" /\ cpc' = "done" /\ settled' = "resolved"
  /\ isContactResult(result'.value) = "true"

\* C30: on the contact form a submission that succeeds over the API ends
\* in the same observable state as a submission through the mock flow: the
\* success message is displayed, the form is reset and the submit button is
\* enabled again with the label it had before.
C30_ApiSuccessLikeMock ==
  [][(page.form = "contact" /\ (MockEnded \/ ApiSucceeded)) =>
       /\ status' = "success"
       /\ formReset'
       /\ ~busy' /\ btnLabel' = "original"]_vars

\* the observer of the bundled script ran: the theme was applied again
\* without a select, attribute or media event
ObserverFired == script = "js" /\ applies' > applies /\ changes' = changes

\* C28: theme application quiesces in the script whose observer re-applies
\* the stored theme: after a select change or an external change of
\* data-theme every run of the observer either leaves fewer mutation
\* records pending or changes the attribute, so that the theme is applied
\* finitely often and the observer stops firing, for every stored theme.
C28_ThemeApplicationQuiesces ==
  [][ObserverFired => (records' < records \/ attr' # attr)]_vars

\* C29: window.__headerBaseline is only ever written while the theme in
\* effect is not dark: no timer set at initialisation or by the attribute
\* observer, and no other measurement, writes a baseline after data-theme
\* has become dark.
C29_BaselineNeverDark == "dark" \notin baselineAt
====
